---------------------------- MODULE NodeRegistry ----------------------------
(***************************************************************************)
(* The register of the node-manager pallet: which nodes exist, who owns    *)
(* them, which key signs for them and what is staked on them.  A call is   *)
(* an operator from the register to the set of registers it may leave: the *)
(* empty set when the call fails, for a failed extrinsic is rolled back.   *)
(* Time and block numbers share one clock, counted in blocks.              *)
(***************************************************************************)
EXTENDS Integers, SequencesExt, TLC

CONSTANTS
  Owners, Nodes, Keys,
  None,                   \* an absent account, node or time
  BonusNodeSerialStart,   \* serials from here on are those of bonus nodes
  VirtualNodeStake,       \* the stake that counts as one more node
  HEARTBEAT_BASE_WEIGHT

Ensure(cond, outcomes) == IF cond THEN outcomes ELSE {}
Then(outcomes, Op(_)) == UNION {Op(r) : r \in outcomes}
SatSub(a, b) == IF a > b THEN a - b ELSE 0
Without(f, x) == Restrict(f, DOMAIN f \ {x})

\* Perbill * amount: to the nearest unit, a half rounded down.
Portion(percent, amount) == (2 * percent * amount + 99) \div 200

EmptyRegister(balances) ==
  [info |-> <<>>, keyOf |-> <<>>, owned |-> {}, count |-> [o \in Owners |-> 0],
   total |-> 0, bonus |-> 0, next |-> 0, nextBonus |-> BonusNodeSerialStart,
   overrides |-> <<>>, stake |-> [o \in Owners |-> 0],
   free |-> balances, reserved |-> [o \in Owners |-> 0]]

Locked == [kind |-> "Locked", allowance |-> 0, expires |-> 0]
Free == [kind |-> "Free", allowance |-> 0, expires |-> 0]
Periodic(allowance, expires) ==
  [kind |-> "Periodic", allowance |-> allowance, expires |-> expires]

NodeInfo_new(owner, key, serial, expiry) ==
  [owner |-> owner, key |-> key, serial |-> serial, expiry |-> expiry, auto |-> TRUE,
   amount |-> 0, unlocked |-> 0, nextUnstake |-> None, restriction |-> Locked]

is_bonus_node(info) == info.serial >= BonusNodeSerialStart

-----------------------------------------------------------------------------
\* The reverse index of signing keys.

insert_signing_key_index(r, node, key) ==
  IF key \in DOMAIN r.keyOf THEN Ensure(r.keyOf[key] = node, {r})
  ELSE {[r EXCEPT !.keyOf = @ @@ (key :> node)]}

remove_signing_key_index(r, node, key) ==
  IF key \in DOMAIN r.keyOf
  THEN Ensure(r.keyOf[key] = node, {[r EXCEPT !.keyOf = Without(@, key)]})
  ELSE {r}

rotate_signing_key_index(r, node, old, new) ==
  IF old = new THEN {r}
  ELSE Then(remove_signing_key_index(r, node, old),
            LAMBDA x : insert_signing_key_index(x, node, new))

update_signing_key(r, who, registrar, node, new_key) ==
  Ensure(/\ node \in DOMAIN r.info
         /\ who \in {registrar, r.info[node].owner}
         /\ r.info[node].key # new_key
         /\ new_key \notin DOMAIN r.keyOf,
    LET x == [r EXCEPT !.info[node].key = new_key] IN
    rotate_signing_key_index(x, node, r.info[node].key, new_key))

-----------------------------------------------------------------------------
\* Registration.

calculate_node_serial(r, is_bonus) == IF is_bonus THEN r.nextBonus ELSE r.next
calculate_auto_stake_expiry(cfg, now) == now + cfg.autoStake

do_register_node(r, cfg, now, node, owner, key, is_bonus) ==
  Ensure(/\ node \notin DOMAIN r.info
         /\ key \notin DOMAIN r.keyOf
         /\ is_bonus \/ r.next < BonusNodeSerialStart,
    Then(insert_signing_key_index(r, node, key), LAMBDA x :
      {[x EXCEPT
          !.owned = @ \cup {<<owner, node>>}, !.count[owner] = @ + 1, !.total = @ + 1,
          !.bonus = IF is_bonus THEN @ + 1 ELSE @,
          !.next = IF is_bonus THEN @ ELSE @ + 1,
          !.nextBonus = IF is_bonus THEN @ + 1 ELSE @,
          !.info = @ @@ (node :> NodeInfo_new(owner, key, calculate_node_serial(x, is_bonus),
                                              calculate_auto_stake_expiry(cfg, now)))]}))

\* Currency::reserve and Currency::unreserve of a stake.
update_reserves(r, owner, amount, op) ==
  IF op = "Add"
  THEN Ensure(r.free[owner] >= amount,
              {[r EXCEPT !.free[owner] = @ - amount, !.reserved[owner] = @ + amount]})
  ELSE Ensure(r.reserved[owner] >= amount,
              {[r EXCEPT !.free[owner] = @ + amount, !.reserved[owner] = @ - amount]})

DropStake(r, owner, amount) ==
  IF amount = 0 THEN {r}
  ELSE Then(update_reserves(r, owner, amount, "Remove"), LAMBDA x :
         Ensure(x.stake[owner] >= amount, {[x EXCEPT !.stake[owner] = @ - amount]}))

DeregisterNode(r, owner, node) ==
  Ensure(<<owner, node>> \in r.owned /\ node \in DOMAIN r.info,
    LET info == r.info[node]
        x == [r EXCEPT
                !.info = Without(@, node), !.owned = @ \ {<<owner, node>>},
                !.overrides = Without(@, info.serial),
                !.count[owner] = SatSub(@, 1), !.total = SatSub(@, 1),
                !.bonus = IF is_bonus_node(info) THEN SatSub(@, 1) ELSE @]
    IN Then(remove_signing_key_index(x, node, info.key),
            LAMBDA y : DropStake(y, owner, info.amount)))

do_deregister_nodes(r, owner, nodes) ==
  FoldLeft(LAMBDA rs, node : Then(rs, LAMBDA x : DeregisterNode(x, owner, node)), {r}, nodes)

\* A bonus level of None clears the override.
OverrideNode(r, node, bonus) ==
  Ensure(node \in DOMAIN r.info /\ ~is_bonus_node(r.info[node]),
    LET serial == r.info[node].serial IN
    {[r EXCEPT !.overrides = IF bonus = None THEN Without(@, serial)
                             ELSE (serial :> bonus) @@ @]})

set_genesis_override(r, nodes, bonus) ==
  FoldLeft(LAMBDA rs, node : Then(rs, LAMBDA x : OverrideNode(x, node, bonus)), {r}, nodes)

-----------------------------------------------------------------------------
\* Stake: locked until the auto-stake expiry, then released period by period.

can_unstake(i, now) == now >= i.expiry

try_snapshot_stake(i, cfg, now) ==
  CASE i.restriction.kind = "Periodic" /\ now >= i.restriction.expires ->
         [i EXCEPT !.restriction = Free]
    [] i.restriction.kind # "Locked" \/ now < i.expiry -> i
    [] OTHER ->
         [i EXCEPT !.restriction =
            IF i.amount = 0 THEN Free
            ELSE Periodic(Portion(cfg.maxUnstake, i.amount), i.expiry + cfg.restricted)]

\* Bug: the allowance in hand is given again within the period.
available_to_unstake_reopened(i, now, unstake_period) ==
  LET rest == i.restriction IN
  IF rest.kind = "Locked" THEN [available |-> 0, next |-> None]
  ELSE [available |-> i.amount, next |-> i.nextUnstake]

\* What may leave now, and when the next allowance is due.
available_to_unstake(i, now, unstake_period) ==
  LET rest == i.restriction
      next == IF i.nextUnstake = None THEN i.expiry ELSE i.nextUnstake
      periods == 1 + SatSub(now, next) \div unstake_period
      newly_unlocked == rest.allowance * periods
      least(a, b) == IF a < b THEN a ELSE b
  IN IF i.amount = 0 \/ unstake_period = 0 THEN [available |-> 0, next |-> i.nextUnstake]
     ELSE IF rest.kind = "Locked" THEN [available |-> 0, next |-> None]
     ELSE IF rest.kind = "Free" \/ now >= rest.expires THEN [available |-> i.amount, next |-> None]
     ELSE IF now < next THEN [available |-> least(i.unlocked, i.amount), next |-> next]
     ELSE [available |-> least(i.unlocked + newly_unlocked, i.amount),
           next |-> next + periods * unstake_period]

do_add_stake(r, cfg, now, owner, node, amount) ==
  Ensure(amount > 0 /\ node \in DOMAIN r.info,
    LET i == try_snapshot_stake(r.info[node], cfg, now)
        x == [r EXCEPT !.info[node] = [i EXCEPT !.amount = @ + amount],
                       !.stake[owner] = @ + amount]
    IN update_reserves(x, owner, amount, "Add"))

All == -1      \* no amount named: everything available

\* The register left and the amount released.
do_remove_stake(r, cfg, now, owner, node, wanted) ==
  LET i == try_snapshot_stake(r.info[node], cfg, now)
      room == available_to_unstake(i, now, cfg.unstakePeriod)
      amount == IF wanted = All THEN room.available ELSE wanted
      x == [r EXCEPT !.info[node] = [i EXCEPT !.amount = @ - amount,
                                              !.nextUnstake = room.next,
                                              !.unlocked = room.available - amount]]
  IN Ensure(can_unstake(i, now) /\ 0 < amount /\ amount <= i.amount /\ amount <= room.available,
       {[reg |-> y, amount |-> amount] : y \in DropStake(x, owner, amount)})

\* One source of a move: the stake named, or all of it, leaves for to_node.
MoveStakeFrom(r, now, owner, source, to_node) ==
  LET from == source.node
      amount == IF source.amount = All THEN r.info[from].amount ELSE source.amount
  IN Ensure(/\ from # to_node /\ from \in DOMAIN r.info
            /\ r.info[from].owner = owner /\ now < r.info[from].expiry
            /\ source.amount = All \/ source.amount > 0
            /\ r.info[from].amount >= amount,
       {[r EXCEPT !.info[from].amount = @ - amount, !.info[to_node].amount = @ + amount]})

do_move_stake(r, now, owner, sources, to_node) ==
  Ensure(/\ sources # <<>>
         /\ to_node \in DOMAIN r.info
         /\ r.info[to_node].owner = owner /\ now < r.info[to_node].expiry
         /\ \A i, j \in DOMAIN sources : sources[i].node = sources[j].node => i = j,
    FoldLeft(LAMBDA rs, s : Then(rs, LAMBDA x : MoveStakeFrom(x, now, owner, s, to_node)),
             {r}, sources))

-----------------------------------------------------------------------------
\* Ownership.

move_reserved_balance(r, from, to, amount) ==
  Ensure(r.reserved[from] >= amount,
         {[r EXCEPT !.reserved = [@ EXCEPT ![from] = @ - amount, ![to] = @ + amount]]})

MoveTotals(r, from, to, n, amount) ==
  LET x == [r EXCEPT !.count = [@ EXCEPT ![from] = SatSub(@, n), ![to] = @ + n]] IN
  IF amount = 0 THEN {x}
  ELSE Then(move_reserved_balance(x, from, to, amount), LAMBDA y :
         Ensure(y.stake[from] >= amount,
                {[y EXCEPT !.stake = [@ EXCEPT ![from] = @ - amount, ![to] = @ + amount]]}))

MoveNode(r, from, to, node, stake) ==
  Ensure(<<from, node>> \in r.owned /\ node \in DOMAIN r.info,
         {[r EXCEPT !.info[node].owner = to, !.info[node].amount = stake,
                    !.owned = (@ \ {<<from, node>>}) \cup {<<to, node>>}]})

StakeOn(r, nodes) ==
  FoldLeft(LAMBDA sum, node : sum + IF node \in DOMAIN r.info THEN r.info[node].amount ELSE 0,
           0, nodes)

\* Bug: the stake stays reserved on the old owner.
do_move_nodes_leaves_stake(r, from, to, nodes) ==
  Then(FoldLeft(LAMBDA rs, node : Then(rs, LAMBDA x :
                  MoveNode(x, from, to, node, StakeOn(x, <<node>>))), {r}, nodes),
       LAMBDA x : MoveTotals(x, from, to, Len(nodes), 0))

do_move_nodes(r, from, to, nodes) ==
  Then(FoldLeft(LAMBDA rs, node : Then(rs, LAMBDA x :
                  MoveNode(x, from, to, node, StakeOn(x, <<node>>))), {r}, nodes),
       LAMBDA x : MoveTotals(x, from, to, Len(nodes), StakeOn(r, nodes)))

\* The stake is dealt out again in equal parts, what is left over to the last node.
do_move_nodes_with_stake(r, now, from, to, nodes, amount) ==
  LET n == Len(nodes)
      share(i) == amount \div n + IF i = n THEN amount % n ELSE 0
  IN Ensure(/\ n > 0 /\ IsInjective(nodes)
            /\ \A i \in 1..n : /\ <<from, nodes[i]>> \in r.owned
                               /\ nodes[i] \in DOMAIN r.info
                               /\ now < r.info[nodes[i]].expiry
            /\ StakeOn(r, nodes) = amount,
       Then(FoldLeft(LAMBDA rs, i : Then(rs, LAMBDA x :
                       MoveNode(x, from, to, nodes[i], share(i))), {r}, [i \in 1..n |-> i]),
            LAMBDA x : MoveTotals(x, from, to, n, amount)))

-----------------------------------------------------------------------------
\* The weight of one heartbeat.

InRange(range, serial) == range.start <= serial /\ serial <= range.end

get_genesis_bonus(r, cfg, serial) ==
  IF serial \in DOMAIN r.overrides THEN r.overrides[serial]
  ELSE IF InRange(cfg.bonus50, serial) THEN "Genesis50"
  ELSE IF InRange(cfg.bonus25, serial) THEN "Genesis25"
  ELSE None

\* In quarters.
calculate_genesis_bonus(r, cfg, info, now) ==
  IF now >= info.expiry THEN 4
  ELSE CASE get_genesis_bonus(r, cfg, info.serial) = "Genesis50" -> 6
         [] get_genesis_bonus(r, cfg, info.serial) = "Genesis25" -> 5
         [] OTHER -> 4

\* The base weight, times one and the number of virtual nodes staked.
calculate_stake_bonus(info) ==
  (HEARTBEAT_BASE_WEIGHT * (VirtualNodeStake + info.amount)) \div VirtualNodeStake

effective_heartbeat_weight(r, cfg, info, now) ==
  (calculate_stake_bonus(info) * calculate_genesis_bonus(r, cfg, info, now)) \div 4

-----------------------------------------------------------------------------
AmountsOf(r, o) == MapThenSumSet(LAMBDA n : r.info[n].amount,
                                 {n \in DOMAIN r.info : r.info[n].owner = o})
Serials(r) == {r.info[n].serial : n \in DOMAIN r.info}

\* Whatever sequence of registrations, moves, key changes and payments led here:
\* ownership, its counts and the key index say what the register says (the
\* watchtower counts votes by OwnedNodesCount and TotalRegisteredNodes), serials
\* and their overrides belong to one registered node, and every owner has
\* reserved exactly the stake of the nodes they own.
BooksBalance(r) ==
  /\ r.owned = {<<r.info[n].owner, n>> : n \in DOMAIN r.info}
  /\ \A o \in Owners : r.count[o] = Cardinality({n \in DOMAIN r.info : r.info[n].owner = o})
  /\ r.total = Cardinality(DOMAIN r.info)
  /\ r.bonus = Cardinality({n \in DOMAIN r.info : is_bonus_node(r.info[n])})
  /\ DOMAIN r.keyOf = {r.info[n].key : n \in DOMAIN r.info}
  /\ \A n \in DOMAIN r.info : r.keyOf[r.info[n].key] = n
  /\ Cardinality(Serials(r)) = r.total
  /\ DOMAIN r.overrides \subseteq Serials(r)
  /\ \A o \in Owners : r.stake[o] = AmountsOf(r, o) /\ r.reserved[o] = AmountsOf(r, o)
=============================================================================
