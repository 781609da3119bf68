--------------------------- MODULE StakingRewards ---------------------------
(***************************************************************************)
(* Blocks, eras, rewards and growth of the parachain-staking pallet.       *)
(*                                                                         *)
(* A block credits its author, may end the era (which rotates the session, *)
(* prepares the payout of an earlier era and selects the collators of the  *)
(* next) and pays one collator of the era that is due.  Growth is reported *)
(* to Ethereum once a period, through the bridge, and its proceeds are     *)
(* paid to the collators when they come back as a lift.  An operator whose *)
(* result depends on what other pallets answer gives the set of the        *)
(* possible results.                                                       *)
(***************************************************************************)
EXTENDS Staking

CONSTANTS
  RewardPaymentDelay, ErasPerGrowthPeriod, MinSelectedCandidates, GrowthEnabled,
  Lengths, Selections,    \* values root may set
  Gifts,                  \* amounts that reach the reward pot or come back as growth
  MaxGifts                \* bound on the times they do

VARIABLES
  payout,     \* Points, AwardedPts, AtStake, Staked, DelayedPayouts, LockedEraPayout,
              \* and the reward pot
  chosen,     \* SelectedCandidates, TotalSelected, and the session's two sets
  growth,     \* GrowthPeriod, Growth, LastTriggered, PublishedGrowth, ProcessedGrowthPeriods
  gifts

rewardVars == <<payout, chosen, growth, gifts>>
Eras == 0..MaxEra
Unset == -1
Nobody == [x \in {} |-> 0]

(***************************************************************************)
(* Points and payouts.                                                     *)
(***************************************************************************)
Get(f, k, default) == IF k \in DOMAIN f THEN f[k] ELSE default

note_author(p, a) ==
  LET e == era.current
  IN [p EXCEPT !.awarded[e] = Put(@, a, Get(@, a, 0) + 20), !.points[e] = @ + 20]

compute_total_reward_to_pay(p) == saturating_sub(p.pot, p.locked)

\* pay_reward: the pot is kept alive; a payment that fails is only logged.
pay_reward(p, a, x) ==
  IF x > p.pot THEN p
  ELSE [p EXCEPT !.pot = @ - x, !.locked = saturating_sub(@, x), !.free[a] = @ + x]

pay_one_collator_reward(p, e, c) ==
  LET due == Perbill(p.awarded[e][c], p.points[e], p.delayed[e])
      snapshot == Get(p.atStake[e], c, [bond |-> 0, nominations |-> <<>>, total |-> 0])
      Share(x) == Perbill(x, snapshot.total, due)
      PayNominator(q, b) == IF Share(b.amount) = 0 THEN q
                            ELSE pay_reward(q, b.owner, Share(b.amount))
      taken == [p EXCEPT !.awarded[e] = Drop(@, c), !.atStake[e] = Drop(@, c)]
  IN FoldLeft(PayNominator, pay_reward(taken, c, Share(snapshot.bond)), snapshot.nominations)

\* Which collator comes first is the order of the storage map.
handle_delayed_payouts(p, now) ==
  LET e == now - RewardPaymentDelay IN
  IF now < RewardPaymentDelay \/ p.delayed[e] = Unset THEN {p}
  ELSE IF p.points[e] = 0 \/ DOMAIN p.awarded[e] = {}
  THEN {[p EXCEPT !.delayed[e] = Unset, !.points[e] = 0]}
  ELSE {pay_one_collator_reward(p, e, c) : c \in DOMAIN p.awarded[e]}

(***************************************************************************)
(* Growth.                                                                 *)
(***************************************************************************)
GrowthInfo_new(n) ==
  [accumulations |-> n, stake |-> 0, reward |-> 0, points |-> 0, scores |-> Nobody,
   tx_id |-> Unset, triggered |-> "None"]

Accumulate(info, stake, reward, points, scores) ==
  [info EXCEPT !.accumulations = @ + 1, !.stake = @ + stake, !.reward = @ + reward,
     !.points = @ + points,
     !.scores = [c \in DOMAIN @ \cup DOMAIN scores |-> Get(@, c, 0) + Get(scores, c, 0)]]

is_new_growth_period(g, e) == g.index = 0 \/ e - g.start >= ErasPerGrowthPeriod

\* The bridge refuses, or takes the call under a new id.
trigger_growth_on_t1(g, period) ==
  LET tx == Cardinality(DOMAIN g.published) + 1
  IN {g, [g EXCEPT !.last = period, !.published = Put(@, tx, period), !.info[period].tx_id = tx]}

get_untriggered_growths(g, latest) == 
  [i \in 1..Lesser(10, saturating_sub(latest, g.last)) |-> g.last + i]

trigger_outstanding_growths(g, latest) ==
  LET Trigger(h, period) ==
        LET info == h.info[period] IN
        IF \/ period \notin DOMAIN h.info
           \/ period \in h.processed \/ info.tx_id # Unset \/ info.triggered # "None" THEN {h}
        ELSE IF info.accumulations = 0 \/ info.stake = 0 \/ info.reward = 0
        THEN {[h EXCEPT !.last = period, !.info[period].tx_id = 0]}
        ELSE trigger_growth_on_t1(h, period)
  IN FoldLeft(LAMBDA hs, period : Then(hs, LAMBDA h : Trigger(h, period)), {g},
              get_untriggered_growths(g, latest))

update_collator_payout(g, e, stake, reward, points, scores) ==
  IF is_new_growth_period(g, e)
  THEN LET fresh == Accumulate(GrowthInfo_new(0), stake, reward, points, scores)
           h == [g EXCEPT !.start = e, !.index = @ + 1, !.info = Put(@, g.index + 1, fresh)]
       IN trigger_outstanding_growths(h, g.index)
  ELSE {[g EXCEPT !.info = Put(@, g.index,
           Accumulate(Get(@, g.index, GrowthInfo_new(0)), stake, reward, points, scores))]}

\* The era's reward is set aside before anyone is paid from it.
prepare_staking_payouts(p, g, now) ==
  LET e == now - RewardPaymentDelay
      reward == compute_total_reward_to_pay(p)
      q == [p EXCEPT !.staked[e] = 0, !.locked = @ + reward, !.delayed[e] = reward]
      gs == IF GrowthEnabled
            THEN update_collator_payout(g, e, p.staked[e], reward, p.points[e], p.awarded[e])
            ELSE {g}
  IN IF now <= RewardPaymentDelay \/ p.points[e] = 0 THEN {[payout |-> p, growth |-> g]}
     ELSE {[payout |-> q, growth |-> h] : h \in gs}

(***************************************************************************)
(* Selection.                                                              *)
(***************************************************************************)
Position(a) == CHOOSE i \in DOMAIN AccountSeq : AccountSeq[i] = a
Above(s, a, b) == \* a comes before b in the pool, richest first
  s.pool[a] > s.pool[b] \/ (s.pool[a] = s.pool[b] /\ Position(a) > Position(b))

compute_top_candidates(s, top_n) ==
  {c \in DOMAIN s.pool :
     /\ Cardinality({d \in DOMAIN s.pool : d # c /\ Above(s, d, c)}) < top_n
     /\ s.pool[c] >= minCollatorStake}

\* A nomination with a request counts for what the request leaves of it.
get_rewardable_nominators(s, c) ==
  LET Counted(b) ==
        IF ~nomination_request_exists(s, c, b.owner) THEN b
        ELSE IF nomination_request_revoke_exists(s, c, b.owner) THEN Bond(b.owner, 0)
        ELSE Bond(b.owner, saturating_sub(b.amount, RequestOf(s, c, b.owner).amount))
  IN [i \in DOMAIN s.top[c].nominations |-> Counted(s.top[c].nominations[i])]

\* A mutant of Snapshot: the stake that is leaving still counts towards the total.
Snapshot_counts_all(s, c) ==
  [bond |-> s.info[c].bond, nominations |-> get_rewardable_nominators(s, c),
   total |-> s.info[c].total_counted]

Snapshot(s, c) ==
  LET counted == get_rewardable_nominators(s, c)
      listed == s.top[c].nominations
      uncounted == SumOver(DOMAIN listed, LAMBDA i : listed[i].amount - counted[i].amount)
  IN [bond |-> s.info[c].bond, nominations |-> counted,
      total |-> saturating_sub(s.info[c].total_counted, uncounted)]

\* With nobody to select, the last era's collators and their snapshots stay.
select_top_candidates(p, s, now) ==
  LET top == compute_top_candidates(s, chosen.total) IN
  IF top = {} THEN [selected |-> chosen.selected,
                    payout |-> [p EXCEPT !.atStake[now] = p.atStake[now - 1]]]
  ELSE [selected |-> top, payout |-> [p EXCEPT !.atStake[now] = [c \in top |-> Snapshot(s, c)]]]

(***************************************************************************)
(* Steps.                                                                  *)
(***************************************************************************)
WithFree == payout @@ [free |-> free]
SetPayout(p) == payout' = [f \in DOMAIN payout |-> p[f]] /\ free' = p.free

EraBase == [e \in Eras |-> Nobody]
RewardInit ==
  /\ StakingInit
  /\ chosen = [selected |-> compute_top_candidates(GenesisLedger, MinSelectedCandidates),
               total |-> MinSelectedCandidates,
               session |-> DOMAIN GenesisBonds, queued |-> DOMAIN GenesisBonds]
  /\ payout = [points |-> [e \in Eras |-> 0], awarded |-> EraBase,
               atStake |-> [EraBase EXCEPT ![1] =
                              [c \in chosen.selected |-> Snapshot(GenesisLedger, c)]],
               staked |-> [e \in Eras |-> IF e = 1 THEN GenesisLedger.total ELSE 0],
               delayed |-> [e \in Eras |-> Unset],
               locked |-> 0, pot |-> 0]
  /\ growth = [index |-> 0, start |-> 0, info |-> [x \in {0} |-> GrowthInfo_new(1)], last |-> 0,
               published |-> Nobody, processed |-> {}]
  /\ gifts = 0

UserVars == <<delay, minCollatorStake, minTotalNominatorStake, nonces, ledger>>

\* new_session never hands over an empty set.
new_session(queued, selected) == IF selected = {} THEN queued ELSE selected
should_update == era.age + 1 >= era.length

\* Authorship, then the session, then this pallet's on_initialize.  The session
\* that ends with an era reads the selection made when the era began.
start_new_era(p) ==
  LET now == era.current + 1 IN
  \E r \in prepare_staking_payouts(p, growth, now) :
    LET s == select_top_candidates(r.payout, ledger, now) IN
    /\ era.current < MaxEra
    /\ era' = [era EXCEPT !.current = now, !.age = 0]
    /\ growth' = r.growth
    /\ chosen' = [chosen EXCEPT !.selected = s.selected, !.session = chosen.queued,
                               !.queued = new_session(chosen.queued, chosen.selected)]
    /\ \E q \in handle_delayed_payouts([s.payout EXCEPT !.staked[now] = ledger.total], now) :
         SetPayout(q)

on_initialize(author) ==
  LET p == note_author(WithFree, author) IN
  /\ author \in chosen.session
  /\ \/ should_update /\ start_new_era(p)
     \/ /\ ~should_update
        /\ era' = [era EXCEPT !.age = @ + 1]
        /\ \E q \in handle_delayed_payouts(p, era.current) : SetPayout(q)
        /\ UNCHANGED <<chosen, growth>>
  /\ UNCHANGED <<UserVars, settings, gifts>>

\* Fees reach the reward pot.
Fund(x) ==
  /\ gifts < MaxGifts /\ gifts' = gifts + 1
  /\ payout' = [payout EXCEPT !.pot = @ + x]
  /\ UNCHANGED <<stakingVars, chosen, growth>>

\* The bridge's answer; the entry may have been paid and removed in between.
process_result(tx, ok) ==
  /\ tx \in DOMAIN growth.published
  /\ LET period == growth.published[tx]
         info == Get(growth.info, period, GrowthInfo_new(0))
     IN growth' = [growth EXCEPT !.info = Put(@, period, [info EXCEPT !.triggered = ok])]
  /\ UNCHANGED <<stakingVars, payout, chosen, gifts>>

\* on_growth_lifted: everyone is paid or nobody is; what rounding leaves over is
\* handed to the token manager.
payout_collators(amount, period) ==
  LET known == period \in DOMAIN growth.info
      info == growth.info[period]
      payees == IF known THEN DOMAIN info.scores ELSE chosen.selected
      Part(c) == IF known THEN Perbill(info.scores[c], info.points, amount)
                 ELSE Perbill(1, Cardinality(payees), amount)
  IN /\ gifts < MaxGifts /\ gifts' = gifts + 1
     /\ period \notin growth.processed /\ \A c \in payees : free[c] > 0
     /\ free' = [a \in Accounts |-> free[a] + (IF a \in payees THEN Part(a) ELSE 0)]
     /\ growth' = [growth EXCEPT !.processed = @ \cup {period}, !.info = Drop(@, period)]
     /\ UNCHANGED <<UserVars, era, settings, payout, chosen>>

set_total_selected(n) ==
  /\ settings < MaxSettings /\ settings' = settings + 1
  /\ n >= MinSelectedCandidates /\ n # chosen.total /\ n <= era.length
  /\ chosen' = [chosen EXCEPT !.total = n]
  /\ UNCHANGED <<UserVars, free, era, payout, growth, gifts>>

set_blocks_per_era(n) ==
  /\ settings < MaxSettings /\ settings' = settings + 1
  /\ n >= MinBlocksPerEra /\ n # era.length /\ n >= chosen.total
  /\ era' = [era EXCEPT !.length = n]
  /\ UNCHANGED <<UserVars, free, payout, chosen, growth, gifts>>

RewardStep ==
  \/ \E a \in Accounts : on_initialize(a)
  \/ \E x \in Gifts : Fund(x) \/ \E period \in 0..MaxEra : payout_collators(x, period)
  \/ \E tx \in 1..MaxEra, ok \in {"Ok", "Failed"} : process_result(tx, ok)
  \/ \E n \in Selections : set_total_selected(n)
  \/ \E n \in Lengths : set_blocks_per_era(n)

-----------------------------------------------------------------------------
SnapshotsBalance ==
  \A e \in Eras : \A c \in DOMAIN payout.atStake[e] :
    LET s == payout.atStake[e][c] IN
    s.total = s.bond + SumOver(DOMAIN s.nominations, LAMBDA i : s.nominations[i].amount)

\* Nobody's reward outlives the era it is paid in, while root leaves the era alone.
EarnersArePaid ==
  settings = 0 => \A e \in Eras :
    e < era.current - RewardPaymentDelay => DOMAIN payout.awarded[e] = {}

GrowthBalances ==
  /\ \A i, j \in DOMAIN growth.published : growth.published[i] = growth.published[j] => i = j
  /\ \A p \in DOMAIN growth.info :
       LET g == growth.info[p]
       IN g.points = SumOver(DOMAIN g.scores, LAMBDA c : g.scores[c])

\* The rewards balance: the pot covers what is set aside, a snapshot's shares add up
\* to its total (so that select_top_candidates may rely on one for every selected
\* collator), every author of an era is paid before the next payout takes its place,
\* a growth period is reported once and its scores add up to its points.
RewardsBalance ==
  /\ payout.locked <= payout.pot
  /\ SnapshotsBalance /\ EarnersArePaid /\ GrowthBalances
  /\ chosen.selected # {} /\ chosen.selected \subseteq DOMAIN payout.atStake[era.current]
=============================================================================
