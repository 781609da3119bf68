---------------------------- MODULE TokenManager ----------------------------
(***************************************************************************)
(* The token-manager pallet: tokens lifted from Ethereum (T1), moved and   *)
(* lowered back.  A lower is scheduled, executed, proved by the bridge and *)
(* claimed or reverted on T1; what happens there comes back as events, in  *)
(* any order.  A call that fails leaves no trace, so it is no step.        *)
(***************************************************************************)
EXTENDS Integers, FiniteSetsExt, Functions, TLC

CONSTANTS
  Holders, Treasury, Tokens, NativeTokens,
  GenesisKnown,        \* the tokens the asset registry has at the start
  Amounts, GrowthAmounts, TreasuryGrowthPercentage, ExistentialDeposit,
  SchedulePeriods,
  MaxLowers, MaxEvents   \* bounds

VARIABLE tm

Native == CHOOSE t \in NativeTokens \cap GenesisKnown : TRUE
Holding == Holders \cup {Treasury}
\* A token the registry knows is held with the asset manager, another with the pallet.
Places == {"asset", "pallet"}

\* escrow, proven, settled, told and events are Ethereum's side: what the contract holds,
\* the lowers it may be shown a proof of, those it has settled, the number of events
\* it emitted and those not imported yet.  growth is owed to the collators.
TokenInit ==
  tm = [bal |-> [k \in Places \X Tokens \X Holding |-> 0], nonces |-> [a \in Holders |-> 0],
        avt |-> Native,
        known |-> GenesisKnown, ready |-> <<>>, pending |-> <<>>, failed |-> <<>>,
        lowerId |-> 0, period |-> Min(SchedulePeriods), disabled |-> FALSE, sched |-> <<>>,
        growth |-> 0, escrow |-> [t \in Tokens |-> 0], proven |-> <<>>, settled |-> {},
        told |-> 0, events |-> {}]

Put(map, k, v) == (k :> v) @@ map
Take(map, k) == Restrict(map, DOMAIN map \ {k})

is_native_token(token) == token = tm.avt
Key(token, who) == <<IF token \in tm.known THEN "asset" ELSE "pallet", token, who>>
\* The native token must be registered, whatever is done with it.
Usable(token) == token \in tm.known \/ ~is_native_token(token)

\* Each of these is the set of the states it may leave: empty when it fails.
Ensure(condition, st) == IF condition THEN {st} ELSE {}
mint_known_token(st, token, to, amount) ==
  Ensure(st.bal[Key(token, to)] + amount >= ExistentialDeposit,
         [st EXCEPT !.bal[Key(token, to)] = @ + amount])
mint_unknown_token(st, token, to, amount) ==
  Ensure(Usable(token), [st EXCEPT !.bal[Key(token, to)] = @ + amount])
burn_known_token(st, token, from, amount) ==
  Ensure(st.bal[Key(token, from)] >= amount + ExistentialDeposit,
         [st EXCEPT !.bal[Key(token, from)] = @ - amount])
burn_unknown_token_saturating(st, token, from, amount) ==
  Ensure(Usable(token), [st EXCEPT !.bal[Key(token, from)] = Max({@ - amount, 0})])
burn_unknown_token(st, token, from, amount) ==
  Ensure(Usable(token) /\ st.bal[Key(token, from)] >= amount,
         [st EXCEPT !.bal[Key(token, from)] = @ - amount])
credit_user_balance(st, token, to, amount) ==
  IF token \in tm.known THEN mint_known_token(st, token, to, amount)
  ELSE mint_unknown_token(st, token, to, amount)
debit_user_balance(st, token, from, amount) ==
  IF token \in tm.known THEN burn_known_token(st, token, from, amount)
  ELSE burn_unknown_token(st, token, from, amount)

\* Nothing moves, and nothing is checked, for a zero amount or a transfer to oneself.
settle_transfer(st, token, from, to, amount) ==
  IF amount = 0 \/ from = to THEN {st}
  ELSE UNION {credit_user_balance(paid, token, to, amount) :
                paid \in debit_user_balance(st, token, from, amount)}

-----------------------------------------------------------------------------
\* Calls.

transfer(from, to, token, amount) == tm' \in settle_transfer(tm, token, from, to, amount)
signed_transfer(from, to, token, amount) ==
  tm' \in {[st EXCEPT !.nonces[from] = @ + 1] :
             st \in settle_transfer(tm, token, from, to, amount)}
transfer_from_treasury(to, amount) ==
  /\ amount # 0
  /\ tm' \in settle_transfer(tm, Native, Treasury, to, amount)

schedule_lower(from, token, amount) ==
  [tm EXCEPT !.lowerId = @ + 1,
     !.sched = Put(@, tm.lowerId, [from |-> from, token |-> token, amount |-> amount,
                                   after |-> tm.period])]
CanSchedule(amount) == ~tm.disabled /\ amount # 0 /\ tm.lowerId < MaxLowers
schedule_direct_lower(from, token, amount) ==
  CanSchedule(amount) /\ tm' = schedule_lower(from, token, amount)
schedule_signed_lower(from, token, amount) ==
  CanSchedule(amount) /\ tm' = [schedule_lower(from, token, amount) EXCEPT !.nonces[from] = @ + 1]

\* The bridge takes the request, or is full and the call fails.
generate_lower_proof(st, id, lower) == [st EXCEPT !.pending = Put(@, id, lower)]

settle_lower(id, lower) ==
  {generate_lower_proof(st, id, lower) :
     st \in debit_user_balance(tm, lower.token, lower.from, lower.amount)}
\* The scheduler runs a due lower once; one that fails is gone, and took nothing.
execute_lower(id) ==
  /\ tm.sched[id].after = 0
  /\ LET done == IF tm.disabled THEN {} ELSE settle_lower(id, tm.sched[id])
     IN tm' \in {[st EXCEPT !.sched = Take(@, id)] : st \in done \cup {tm}}
NewBlock ==
  /\ \E id \in DOMAIN tm.sched : tm.sched[id].after > 0
  /\ \A id \in DOMAIN tm.sched : tm.sched[id].after > 0
  /\ tm' = [tm EXCEPT !.sched = [id \in DOMAIN @ |-> [@[id] EXCEPT !.after = @ - 1]]]

regenerate_proof(st, id, lower) == generate_lower_proof(st, id, lower)
regenerate_lower_proof(id) ==
  /\ ~tm.disabled
  /\ \/ /\ id \in DOMAIN tm.ready
        /\ tm' = regenerate_proof([tm EXCEPT !.ready = Take(@, id)], id, tm.ready[id])
     \/ /\ id \notin DOMAIN tm.ready /\ id \in DOMAIN tm.failed
        /\ tm' = regenerate_proof([tm EXCEPT !.failed = Take(@, id)], id, tm.failed[id])

\* The proof is published with the lower and can be shown on T1 from then on.
process_lower_proof_result(id, ok) ==
  /\ id \in DOMAIN tm.pending
  /\ tm' = IF ok THEN [tm EXCEPT !.pending = Take(@, id), !.ready = Put(@, id, tm.pending[id]),
                                 !.proven = Put(@, id, tm.pending[id])]
           ELSE [tm EXCEPT !.pending = Take(@, id), !.failed = Put(@, id, tm.pending[id])]

set_lower_schedule_period(new) == tm' = [tm EXCEPT !.period = new]
toggle_lowering(enabled) == tm' = [tm EXCEPT !.disabled = ~enabled]
set_native_token_eth_address(new) == tm' = [tm EXCEPT !.avt = new]

-----------------------------------------------------------------------------
\* Events.  One that fails is dropped.

process_lift(e) == IF e.amount = 0 THEN {} ELSE credit_user_balance(tm, e.token, e.to, e.amount)
process_avt_growth_lift(e) ==
  LET share == (2 * e.amount * TreasuryGrowthPercentage + 100) \div 200
  IN {[st EXCEPT !.growth = @ + e.amount - share] :
        st \in IF e.amount = 0 THEN {} ELSE credit_user_balance(tm, tm.avt, Treasury, share)}
remove_used_lower(id) ==
  {[tm EXCEPT !.ready = Take(@, id)] : x \in {id} \cap DOMAIN tm.ready}
process_lower_claim(e) == remove_used_lower(e.id)
process_lower_reverted(e) ==
  UNION {credit_user_balance(st, e.token, e.to, e.amount) : st \in remove_used_lower(e.id)}

processed_event_handler(e) ==
  CASE e.kind = "lifted" -> process_lift(e)
    [] e.kind = "growth" -> process_avt_growth_lift(e)
    [] e.kind = "claimed" -> process_lower_claim(e)
    [] e.kind = "reverted" -> process_lower_reverted(e)
on_incoming_event_processed(e) ==
  LET after == processed_event_handler(e)
  IN tm' \in {[st EXCEPT !.events = @ \ {e}] : st \in IF after = {} THEN {tm} ELSE after}

\* What the staking pallet did not pay out goes to the treasury, if that exists.
handle_dust(amount) ==
  /\ amount <= tm.growth /\ tm.bal[Key(Native, Treasury)] > 0
  /\ tm' \in {[st EXCEPT !.growth = @ - amount] :
                st \in mint_known_token(tm, Native, Treasury, amount)}

-----------------------------------------------------------------------------
\* Ethereum, and the asset registry.  The contract settles a lower once, by paying
\* it out or by reverting it, on whichever proof it is shown.

Emit(st, e) ==
  /\ tm.told < MaxEvents
  /\ tm' = [st EXCEPT !.told = @ + 1, !.events = @ \cup {e @@ [n |-> tm.told]}]
T1Lift == \E t \in Tokens, to \in Holders, a \in Amounts :
  Emit([tm EXCEPT !.escrow[t] = @ + a], [kind |-> "lifted", token |-> t, to |-> to, amount |-> a])
T1Growth == \E a \in GrowthAmounts :
  Emit([tm EXCEPT !.escrow[Native] = @ + a], [kind |-> "growth", amount |-> a])
T1Settle == \E id \in DOMAIN tm.proven \ tm.settled :
  LET lower == tm.proven[id]
      st == [tm EXCEPT !.settled = @ \cup {id}]
  IN \/ Emit([st EXCEPT !.escrow[lower.token] = @ - lower.amount], [kind |-> "claimed", id |-> id])
     \/ Emit(st, [kind |-> "reverted", id |-> id, token |-> lower.token, to |-> lower.from,
                  amount |-> lower.amount])
RegisterAsset == \E t \in Tokens \ (tm.known \cup NativeTokens) :
  tm' = [tm EXCEPT !.known = @ \cup {t}]

\* The calls of holders and of the treasury.
TokenCalls ==
  \/ \E from \in Holders, t \in Tokens, a \in Amounts :
       \/ schedule_direct_lower(from, t, a) \/ schedule_signed_lower(from, t, a)
       \/ \E to \in Holding : transfer(from, to, t, a) \/ signed_transfer(from, to, t, a)
  \/ \E to \in Holders, a \in Amounts : transfer_from_treasury(to, a)
TokenSettings ==
  \/ \E p \in SchedulePeriods : set_lower_schedule_period(p)
  \/ \E on \in BOOLEAN : toggle_lowering(on)
  \/ \E t \in NativeTokens : set_native_token_eth_address(t)
  \/ RegisterAsset
LowerLife ==
  \/ NewBlock
  \/ \E id \in DOMAIN tm.sched : execute_lower(id)
  \/ \E id \in 0..(tm.lowerId - 1) :
       regenerate_lower_proof(id) \/ \E ok \in BOOLEAN : process_lower_proof_result(id, ok)
  \/ \E e \in tm.events : on_incoming_event_processed(e)
  \/ T1Settle
  \/ \E a \in Amounts : handle_dust(a)

TokenNext == TokenCalls \/ TokenSettings \/ LowerLife \/ T1Lift \/ T1Growth
TokenSpec == TokenInit /\ [][TokenNext]_tm

-----------------------------------------------------------------------------
Total(set, f(_)) == MapThenSumSet(f, set)

\* Whatever is transferred, lowered, proved again, claimed, reverted or registered
\* meanwhile, and in whichever order the events come back, the contract holds at least
\* what the chain's accounts hold, what is owed to collators, what unsettled lowers can
\* still claim and what events still to come will credit (credit_user_balance,
\* debit_user_balance, settle_lower, process_lower_reverted, process_avt_growth_lift).
Backed == \A t \in Tokens :
  LET held == Total(Places \X Holding, LAMBDA k : tm.bal[k[1], t, k[2]])
      Unsettled(map) == Total({id \in DOMAIN map \ tm.settled : map[id].token = t},
                              LAMBDA id : map[id].amount)
      Comes(e) == CASE e.kind \in {"lifted", "reverted"} /\ e.token = t -> e.amount
                    [] e.kind = "growth" /\ t = Native -> e.amount
                    [] OTHER -> 0
  IN held + (IF t = Native THEN tm.growth ELSE 0) + Unsettled(tm.pending @@ tm.ready @@ tm.failed)
       + Total(tm.events, Comes) <= tm.escrow[t]
=============================================================================
