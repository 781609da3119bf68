-------------------------- MODULE ValidatorsManager --------------------------
(***************************************************************************)
(* The validators-manager pallet, with the offence handler it notifies and *)
(* the part of staking it drives.  Adding or removing a validator is asked *)
(* of Ethereum (T1) through the bridge and completed by the answer; a new  *)
(* session settles it.  A handler that fails rolls the bridge's call back, *)
(* so it is no step; an administrator may then end the request as failed.  *)
(***************************************************************************)
EXTENDS Integers, FiniteSets, Functions, TLC

CONSTANTS
  Accounts, GenesisValidators, EthKeys,
  GenesisKey,             \* the Ethereum key of each genesis validator
  MinimumValidatorCount, MaximumValidatorsBound,
  Deposits, min_collator_stake,
  LeaveDelay,             \* sessions a leaving candidate waits
  MaxActions              \* bound

VARIABLE vm

\* cand, leaving and free are staking's: the candidates' bonds, the sessions a leaving
\* one still waits, free balances; session and queued are the session pallet's; offenders
\* and slashing are the offence handler's.
ValidatorsInit ==
  vm = [list |-> GenesisValidators, actions |-> <<>>, ingress |-> 0, txs |-> <<>>,
        keys |-> [k \in {GenesisKey[v] : v \in GenesisValidators} |->
                    CHOOSE v \in GenesisValidators : GenesisKey[v] = k],
        keyOf |-> GenesisKey, deposits |-> <<>>,
        cand |-> [v \in GenesisValidators |-> min_collator_stake], leaving |-> <<>>,
        free |-> [a \in Accounts |-> 2 * min_collator_stake],
        session |-> GenesisValidators, queued |-> GenesisValidators,
        offenders |-> <<>>, slashing |-> FALSE]

Put(map, k, v) == (k :> v) @@ map
Drop(map, k) == Restrict(map, DOMAIN map \ {k})

\* Of the states an action can be in, the ones that bar another from starting.
action_state_is_active_when_confirmed(status) == status = "Confirmed"
action_state_is_active(status) == status \in {"AwaitingConfirmation", "Confirmed"}
has_any_active_action == \E id \in DOMAIN vm.actions : action_state_is_active(vm.actions[id].status)

validate_validator_registration_request(who, key) ==
  /\ vm.list # {} /\ who \notin vm.list
  /\ key \notin DOMAIN vm.keys
  /\ Cardinality(vm.list) < MaximumValidatorsBound
  /\ ~has_any_active_action
validate_validator_deregistration_request(who) ==
  /\ Cardinality(vm.list) > MinimumValidatorCount
  /\ who \in vm.list
  /\ ~has_any_active_action
validate_staking_preconditions(who, bond) ==
  who \notin DOMAIN vm.cand /\ bond >= min_collator_stake /\ vm.free[who] >= bond

\* The bridge gives the request an id; the action of that number waits for its answer.
Publish(st, who, type) ==
  LET n == st.ingress + 1
  IN [st EXCEPT !.ingress = n, !.txs = Put(@, n, <<who, n>>),
                !.actions = Put(@, <<who, n>>, [status |-> "AwaitingConfirmation", type |-> type])]
send_validator_registration_to_t1(st, who, key) ==
  Publish([st EXCEPT !.keys = Put(@, key, who), !.keyOf = Put(@, who, key)], who, "Registration")
send_validator_deregistration_to_t1(st, who) == Publish(st, who, "Resignation")

add_collator(who, key, bond) ==
  /\ vm.ingress < MaxActions
  /\ validate_validator_registration_request(who, key)
  /\ validate_staking_preconditions(who, bond)
  /\ vm' = send_validator_registration_to_t1([vm EXCEPT !.deposits = Put(@, who, bond)], who, key)
remove_validator(who) ==
  /\ vm.ingress < MaxActions
  /\ validate_validator_deregistration_request(who)
  /\ who \in DOMAIN vm.keyOf
  /\ vm' = send_validator_deregistration_to_t1(vm, who)
rotate_validator_ethereum_key(who, old, new) ==
  /\ new \notin DOMAIN vm.keys /\ old # new
  /\ old \in DOMAIN vm.keys /\ vm.keys[old] = who
  /\ vm' = [vm EXCEPT !.keys = Put(Drop(@, old), new, who), !.keyOf = Put(@, who, new)]

-----------------------------------------------------------------------------
\* T1's answer.

remove_ethereum_public_key_if_required(st, who) ==
  IF who \notin DOMAIN st.keyOf THEN st
  ELSE [st EXCEPT !.keys = Drop(@, st.keyOf[who]), !.keyOf = Drop(@, who)]

\* Joining the candidates reserves the deposit; staking refuses one not covered.
add_validator_to_staking(st, who) ==
  LET bond == IF who \in DOMAIN st.deposits THEN st.deposits[who] ELSE min_collator_stake
  IN IF st.free[who] < bond \/ who \in DOMAIN st.cand THEN {}
     ELSE {[st EXCEPT !.deposits = Drop(@, who), !.cand = Put(@, who, bond), !.free[who] = @ - bond]}
setup_for_new_validator(st, who) == [st EXCEPT !.offenders = Drop(@, who)]

complete_validator_registration(st, id) ==
  {[setup_for_new_validator(joined, id[1]) EXCEPT
      !.actions[id] = [status |-> "Actioned", type |-> "Activation"]] :
     joined \in IF Cardinality(st.list) < MaximumValidatorsBound
                THEN add_validator_to_staking([st EXCEPT !.list = @ \cup {id[1]}], id[1])
                ELSE {}}
\* The candidate is set to leave, unless it is leaving already.
complete_validator_deregistration(st, id) ==
  IF id[1] \notin DOMAIN st.cand \/ id[1] \in DOMAIN st.leaving THEN {}
  ELSE {remove_ethereum_public_key_if_required(
          [st EXCEPT !.leaving = Put(@, id[1], LeaveDelay), !.list = @ \ {id[1]},
                     !.actions[id].status = "Actioned"], id[1])}

cleanup_registration_storage(st, id) ==
  [remove_ethereum_public_key_if_required(st, id[1]) EXCEPT
     !.deposits = Drop(@, id[1]), !.actions = Drop(@, id)]
rollback_failed_validator_action(st, id) ==
  IF st.actions[id].type = "Registration" THEN cleanup_registration_storage(st, id)
  ELSE [st EXCEPT !.actions = Drop(@, id)]

process_result(tx, succeeded) ==
  LET id == vm.txs[tx]
      st == [vm EXCEPT !.txs = Drop(@, tx)]
      type == vm.actions[id].type
  IN /\ id \in DOMAIN vm.actions
     /\ IF ~succeeded THEN vm' = rollback_failed_validator_action(st, id)
        ELSE vm' \in CASE type = "Registration" -> complete_validator_registration(st, id)
                       [] type = "Resignation" -> complete_validator_deregistration(st, id)
                       [] OTHER -> {st}

-----------------------------------------------------------------------------
\* A new session.  The validators the staking pallet names take office one session
\* later; the actions are visited in no particular order.

Left(id, st) == st.actions[id].type = "Resignation" /\ id[1] \notin st.session
Active(id, st) == st.actions[id].type = "Activation" /\ id[1] \in st.session
Actioned(st) == {id \in DOMAIN st.actions : st.actions[id].status = "Actioned"}
exit_from_staking(st, S) ==
  LET gone == {id \in S : Left(id, st) /\ id[1] \in DOMAIN st.leaving /\ st.leaving[id[1]] = 0}
      who == {id[1] : id \in gone}
  IN [st EXCEPT !.cand = Restrict(@, DOMAIN @ \ who), !.leaving = Restrict(@, DOMAIN @ \ who),
                !.free = [a \in Accounts |-> @[a] + IF a \in who THEN st.cand[a] ELSE 0],
                !.actions = [id \in DOMAIN @ |->
                   IF id \in gone THEN [@[id] EXCEPT !.status = "Confirmed"] ELSE @[id]]]
\* Visits the actions in S: confirms what has happened, drops what was confirmed before.
Visit(st, S) ==
  LET was == {id \in S : st.actions[id].status = "Confirmed"}
      out == exit_from_staking(st, S \cap Actioned(st))
  IN [out EXCEPT !.actions = [id \in DOMAIN @ \ was |->
        IF id \in S \cap Actioned(st) /\ Active(id, st)
        THEN [@[id] EXCEPT !.status = "Confirmed"] ELSE @[id]]]
on_new_session ==
  LET st == [vm EXCEPT !.session = vm.queued, !.queued = DOMAIN vm.cand \ DOMAIN vm.leaving,
               !.leaving = [a \in DOMAIN @ |-> IF @[a] > 0 THEN @[a] - 1 ELSE 0]]
      \* Activated, but the key is gone: the loop ends there.
      stops == {id \in Actioned(st) : Active(id, st) /\ id[1] \notin DOMAIN st.keyOf}
  IN IF stops = {} THEN vm' = Visit(st, DOMAIN st.actions)
     ELSE \E id \in stops, S \in SUBSET (DOMAIN st.actions \ stops) : vm' = Visit(st, S \cup {id})

on_offence(who, slashed) ==
  /\ who \notin DOMAIN vm.offenders /\ who \in vm.session
  /\ vm' = [vm EXCEPT !.offenders = Put(@, who, vm.slashing /\ slashed)]
configure_slashing(enabled) == vm' = [vm EXCEPT !.slashing = enabled]
\* Balances move while T1 is asked.
Spend(who) == vm.free[who] > 0 /\ vm' = [vm EXCEPT !.free[who] = @ - 1]

ValidatorCalls ==
  \/ \E who \in Accounts, k \in EthKeys :
       \/ \E bond \in Deposits : add_collator(who, k, bond)
       \/ \E new \in EthKeys : rotate_validator_ethereum_key(who, k, new)
  \/ \E who \in Accounts : remove_validator(who) \/ Spend(who)
  \/ \E on \in BOOLEAN : configure_slashing(on)
  \/ \E who \in vm.session, slashed \in BOOLEAN : on_offence(who, slashed)
ValidatorLife ==
  \/ \E tx \in DOMAIN vm.txs, ok \in BOOLEAN : process_result(tx, ok)
  \/ on_new_session

ValidatorsNext == ValidatorCalls \/ ValidatorLife
ValidatorsSpec == ValidatorsInit /\ [][ValidatorsNext]_vm

-----------------------------------------------------------------------------
Awaiting == {id \in DOMAIN vm.actions : vm.actions[id].status = "AwaitingConfirmation"}
Joining == {id[1] : id \in {i \in Awaiting : vm.actions[i].type = "Registration"}}

\* Whatever T1 answers and when, whether or not staking can take the newcomer by then,
\* and while keys are rotated: the validator list is the staking candidates that are
\* not leaving, its members and the one account T1 is asked to add are those with an
\* Ethereum key, the two key maps mirror each other, only that account has a deposit
\* set aside, one request is open at a time, and the list keeps between its limits
\* (add_collator, remove_validator, process_result, on_new_session).
RostersAgree ==
  /\ vm.list = DOMAIN vm.cand \ DOMAIN vm.leaving
  /\ DOMAIN vm.keyOf = vm.list \cup Joining
  /\ DOMAIN vm.keys = {vm.keyOf[a] : a \in DOMAIN vm.keyOf}
  /\ \A k \in DOMAIN vm.keys : vm.keyOf[vm.keys[k]] = k
  /\ DOMAIN vm.deposits = Joining
  /\ Cardinality(Awaiting) <= 1 /\ Awaiting = {vm.txs[tx] : tx \in DOMAIN vm.txs}
  /\ MinimumValidatorCount <= Cardinality(vm.list)
  /\ Cardinality(vm.list) <= MaximumValidatorsBound
=============================================================================
