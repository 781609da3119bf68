--------------------------- MODULE AuthorsManager ---------------------------
(***************************************************************************)
(* The authors-manager pallet: block authors without staking, added and    *)
(* removed through Ethereum (T1) as validators-manager does it.  A handler *)
(* that fails rolls the bridge's call back, so it is no step.              *)
(***************************************************************************)
EXTENDS Integers, FiniteSets, Functions, TLC

CONSTANTS
  Accounts, GenesisAuthors, EthKeys,
  GenesisKey,             \* the Ethereum key of each genesis author
  MinimumAuthorsCount, MaximumAuthorsBound,
  MaxActions              \* bound

VARIABLE am

\* session and queued are the session pallet's, with the disabled authors among them.
AuthorsInit ==
  am = [list |-> GenesisAuthors, actions |-> <<>>, ingress |-> 0, txs |-> <<>>,
        keys |-> [k \in {GenesisKey[v] : v \in GenesisAuthors} |->
                    CHOOSE v \in GenesisAuthors : GenesisKey[v] = k],
        keyOf |-> GenesisKey, session |-> GenesisAuthors, queued |-> GenesisAuthors]

Put(map, k, v) == (k :> v) @@ map
Drop(map, k) == Restrict(map, DOMAIN map \ {k})

action_state_is_active_when_awaiting(status) == status = "AwaitingConfirmation"
action_state_is_active(status) == status \in {"AwaitingConfirmation", "Confirmed"}
has_any_active_action == \E id \in DOMAIN am.actions : action_state_is_active(am.actions[id].status)

validate_author_registration_request(who, key) ==
  /\ am.list # {} /\ who \notin am.list
  /\ key \notin DOMAIN am.keys
  /\ Cardinality(am.list) < MaximumAuthorsBound
  /\ ~has_any_active_action
validate_author_deregistration_request(who) ==
  /\ Cardinality(am.list) > MinimumAuthorsCount
  /\ who \in am.list
  /\ ~has_any_active_action

Publish(st, who, type) ==
  LET n == st.ingress + 1
  IN [st EXCEPT !.ingress = n, !.txs = Put(@, n, <<who, n>>),
                !.actions = Put(@, <<who, n>>, [status |-> "AwaitingConfirmation", type |-> type])]
send_author_registration_to_t1(st, who, key) ==
  Publish([st EXCEPT !.keys = Put(@, key, who), !.keyOf = Put(@, who, key)], who, "Registration")
send_author_deregistration_to_t1(st, who) == Publish(st, who, "Resignation")

add_author(who, key) ==
  /\ am.ingress < MaxActions
  /\ validate_author_registration_request(who, key)
  /\ am' = send_author_registration_to_t1(am, who, key)
remove_author(who) ==
  /\ am.ingress < MaxActions
  /\ validate_author_deregistration_request(who) /\ who \in DOMAIN am.keyOf
  /\ am' = send_author_deregistration_to_t1(am, who)
\* Only the map from keys is told of the new key.
rotate_author_ethereum_key(who, old, new) ==
  /\ new \notin DOMAIN am.keys /\ old # new
  /\ old \in DOMAIN am.keys /\ am.keys[old] = who
  /\ am' = [am EXCEPT !.keys = Put(Drop(@, old), new, who)]

-----------------------------------------------------------------------------
\* Some key of the account goes; the map to it stays.
get_ethereum_public_key_if_exists(st, who) == {k \in DOMAIN st.keys : st.keys[k] = who}
remove_ethereum_public_key_if_required(st, who) ==
  LET mine == get_ethereum_public_key_if_exists(st, who)
  IN IF mine = {} THEN {st} ELSE {[st EXCEPT !.keys = Drop(@, k)] : k \in mine}

complete_author_registration(st, id) ==
  IF Cardinality(st.list) >= MaximumAuthorsBound THEN {}
  ELSE {[st EXCEPT !.list = @ \cup {id[1]},
                   !.actions[id] = [status |-> "Actioned", type |-> "Activation"]]}
complete_author_deregistration(st, id) ==
  remove_ethereum_public_key_if_required(
    [st EXCEPT !.list = @ \ {id[1]}, !.actions[id].status = "Actioned"], id[1])

cleanup_registration_storage(st, id) ==
  LET out == [st EXCEPT !.actions = Drop(@, id)]
  IN IF id[1] \notin DOMAIN st.keyOf THEN out
     ELSE [out EXCEPT !.keys = Drop(@, st.keyOf[id[1]]), !.keyOf = Drop(@, id[1])]
rollback_failed_author_action(st, id) ==
  IF st.actions[id].type = "Registration" THEN cleanup_registration_storage(st, id)
  ELSE [st EXCEPT !.actions = Drop(@, id)]

process_result(tx, succeeded) ==
  LET id == am.txs[tx]
      st == [am EXCEPT !.txs = Drop(@, tx)]
      type == am.actions[id].type
  IN /\ id \in DOMAIN am.actions
     /\ IF ~succeeded THEN am' = rollback_failed_author_action(st, id)
        ELSE am' \in CASE type = "Registration" -> complete_author_registration(st, id)
                       [] type = "Resignation" -> complete_author_deregistration(st, id)
                       [] OTHER -> {st}

-----------------------------------------------------------------------------
\* An empty list leaves the authors as they are.
new_session == IF am.list = {} THEN am.queued ELSE am.list
author_permanently_removed(who, st) == who \notin st.session
clean_up_author_data(st, id) ==
  remove_ethereum_public_key_if_required([st EXCEPT !.actions[id].status = "Confirmed"], id[1])
\* Only an action that still awaits T1 is looked at, and one at most does; an
\* activation never awaits T1, so its branch does nothing.
on_new_session ==
  LET st == [am EXCEPT !.session = am.queued, !.queued = new_session]
      leaves == {id \in DOMAIN st.actions :
                   /\ st.actions[id] = [status |-> "AwaitingConfirmation", type |-> "Resignation"]
                   /\ author_permanently_removed(id[1], st)}
  IN am' \in IF leaves = {} THEN {st} ELSE UNION {clean_up_author_data(st, id) : id \in leaves}

AuthorCalls ==
  \/ \E who \in Accounts, k \in EthKeys :
       add_author(who, k) \/ \E new \in EthKeys : rotate_author_ethereum_key(who, k, new)
  \/ \E who \in Accounts : remove_author(who)
AuthorLife ==
  \/ \E tx \in DOMAIN am.txs, ok \in BOOLEAN : process_result(tx, ok)
  \/ on_new_session
AuthorsNext == AuthorCalls \/ AuthorLife
AuthorsSpec == AuthorsInit /\ [][AuthorsNext]_am

-----------------------------------------------------------------------------
Open == {id \in DOMAIN am.actions : am.actions[id].status # "Actioned"}

\* However T1's answers fall among session changes, which confirm a removal that T1
\* has not answered yet when its author holds no session: one change is open at a time,
\* it is the one T1 was asked for, and the list keeps between its limits, so every
\* session has authors (has_any_active_action, process_result, on_new_session).
AuthorChangesAreSerial ==
  /\ Cardinality(Open) <= 1
  /\ Open = {am.txs[tx] : tx \in DOMAIN am.txs}
  /\ MinimumAuthorsCount <= Cardinality(am.list) /\ Cardinality(am.list) <= MaximumAuthorsBound
  /\ am.session # {}

\* "Storage map providing a reverse mapping from `AccountId` to Ethereum public key":
\* of an author with a key, it gives that key (AccountIdToEthereumKeys).
ReverseMapping ==
  \A k \in DOMAIN am.keys : am.keys[k] \in am.list => am.keyOf[am.keys[k]] = k
=============================================================================
