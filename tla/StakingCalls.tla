---------------------------- MODULE StakingCalls ----------------------------
(***************************************************************************)
(* The calls of the parachain-staking pallet on its ledger: what a         *)
(* nominator and a candidate may do, and the scheduled requests, with      *)
(* their guards.  An operator is the set of the ledgers the call may       *)
(* leave, empty when it is refused.  The weight hints of the calls (the    *)
(* number of candidates or of nominations) only refuse a call whose hint   *)
(* is too low; a caller is taken to give one that is high enough.          *)
(***************************************************************************)
EXTENDS StakingLedger

Guard(ok, outcomes) == IF ok THEN outcomes ELSE {}
Then(outcomes, f(_)) == UNION {f(s) : s \in outcomes}

(***************************************************************************)
(* Nominating.                                                             *)
(***************************************************************************)
call_nominate(s, n, c, amount) ==
  LET old == s.nominators[n]
      first == ~is_nominator(s, n)
      st == IF first THEN Nominator_new(c, amount)
            ELSE [old EXCEPT !.nominations = Put(@, c, amount), !.total = @ + amount]
      allowed ==
        /\ get_nominator_stakable_free_balance(s, n) >= amount
        /\ IF first THEN amount >= minTotalNominatorStake /\ ~is_candidate(s, n)
           ELSE /\ amount >= MinNominationPerCollator
                /\ Cardinality(DOMAIN old.nominations) < MaxNominationsPerNominator
                /\ c \notin DOMAIN old.nominations
        /\ is_candidate(s, c)
      Booked(r) == [SetNominator(r.ledger, n, st) EXCEPT
                      !.total = @ + (IF r.less = -1 THEN amount ELSE saturating_sub(amount, r.less))]
  IN Guard(allowed, {Booked(r) : r \in add_nomination(s, c, Bond(n, amount))})

call_bond_extra(s, n, c, more) ==
  LET st == s.nominators[n]
      bond == st.nominations[c]
      grown == SetNominator(s, n, [st EXCEPT !.nominations[c] = bond + more, !.total = @ + more])
      Paid(t) == [t EXCEPT !.total = @ + more]
  IN Guard(/\ ~nomination_request_revoke_exists(s, c, n)
           /\ is_nominator(s, n) /\ c \in DOMAIN st.nominations
           /\ get_nominator_stakable_free_balance(s, n) >= more
           /\ is_candidate(s, c),
           {Paid(t) : t \in increase_nomination(grown, c, n, bond, more)})

nominator_leaves_candidate(s, c, n, amount) ==
  LET Unlocked(t) == [t EXCEPT !.total = saturating_sub(@, amount)]
  IN Guard(is_candidate(s, c), {Unlocked(t) : t \in rm_nomination_if_exists(s, c, n, amount)})

(***************************************************************************)
(* Scheduled requests of a nominator.                                      *)
(***************************************************************************)
nomination_schedule_revoke(s, c, n) ==
  LET st == s.nominators[n] IN
  Guard(/\ is_nominator(s, n) /\ ~nomination_request_exists(s, c, n)
        /\ c \in DOMAIN st.nominations,
        {PushRequest(s, c, Request(n, "Revoke", st.nominations[c]))})

nomination_schedule_bond_decrease(s, c, n, less) ==
  LET st == s.nominators[n]
      net_total == saturating_sub(st.total, st.less_total)
  IN Guard(/\ is_nominator(s, n) /\ ~nomination_request_exists(s, c, n)
           /\ c \in DOMAIN st.nominations
           /\ st.nominations[c] > less
           /\ st.nominations[c] - less >= MinNominationPerCollator
           /\ less <= saturating_sub(net_total, minTotalNominatorStake),
           {PushRequest(s, c, Request(n, "Decrease", less))})

nomination_cancel_request(s, c, n) ==
  Guard(is_nominator(s, n) /\ nomination_request_exists(s, c, n),
        {cancel_request_with_state(s, c, n)})

ExecuteRevoke(s, c, n) ==
  LET st == s.nominators[n]
      amount == RequestOf(s, c, n).amount
      leaving == Cardinality(DOMAIN st.nominations) = 1
      t == rm_nomination(cancel_request_with_state(s, c, n), n, c)
      Left(u) == IF leaving THEN [u EXCEPT !.nominators = Drop(@, n)] ELSE u
  IN Guard(leaving \/ saturating_sub(st.total, minTotalNominatorStake) >= amount,
           {Left(u) : u \in nominator_leaves_candidate(t, c, n, amount)})

ExecuteDecrease(s, c, n) ==
  LET st == s.nominators[n]
      amount == RequestOf(s, c, n).amount
      bond == st.nominations[c]
      total == saturating_sub(st.total, amount)
      t == cancel_request_with_state(s, c, n)
      u == SetNominator(t, n, [t.nominators[n] EXCEPT !.nominations[c] = bond - amount,
                                                      !.total = total])
      Paid(v) == [v EXCEPT !.total = saturating_sub(@, amount)]
  IN Guard(/\ c \in DOMAIN st.nominations /\ bond > amount /\ is_candidate(s, c)
           /\ total >= MinNominationPerCollator /\ total >= minTotalNominatorStake,
           {Paid(v) : v \in decrease_nomination(u, c, n, bond, amount)})

\* A mutant of nomination_execute_scheduled_request: the delay is not awaited.
nomination_execute_at_once(s, c, n) ==
  Guard(is_nominator(s, n) /\ nomination_request_exists(s, c, n),
        IF RequestOf(s, c, n).action = "Revoke" THEN ExecuteRevoke(s, c, n)
        ELSE ExecuteDecrease(s, c, n))

nomination_execute_scheduled_request(s, c, n) ==
  Guard(/\ is_nominator(s, n) /\ nomination_request_exists(s, c, n)
        /\ RequestOf(s, c, n).when_executable <= era.current,
        IF RequestOf(s, c, n).action = "Revoke" THEN ExecuteRevoke(s, c, n)
        ELSE ExecuteDecrease(s, c, n))

(***************************************************************************)
(* Leaving the set of nominators: a revoke request towards every candidate.*)
(***************************************************************************)
Collators(s, n) ==
  SelectSeq(AccountSeq, LAMBDA c : c \in DOMAIN s.nominators[n].nominations)
AllRevoked(s, n) ==
  \A c \in DOMAIN s.nominators[n].nominations : nomination_request_revoke_exists(s, c, n)

nominator_schedule_revoke_all(s, n) ==
  LET RevokeOne(t, c) ==
        PushRequest(cancel_request_with_state(t, c, n), c,
                    IF nomination_request_revoke_exists(t, c, n) THEN RequestOf(t, c, n)
                    ELSE Request(n, "Revoke", s.nominators[n].nominations[c]))
  IN Guard(is_nominator(s, n) /\ ~AllRevoked(s, n),
           {FoldLeft(RevokeOne, s, Collators(s, n))})

nominator_cancel_scheduled_revoke_all(s, n) ==
  Guard(is_nominator(s, n) /\ AllRevoked(s, n),
        {FoldLeft(LAMBDA t, c : cancel_request_with_state(t, c, n), s, Collators(s, n))})

\* A candidate that no longer knows the nomination is logged and passed over.
nominator_execute_scheduled_revoke_all(s, n) ==
  LET Leave(t, c) ==
        LET u == cancel_request_with_state(t, c, n)
            left == nominator_leaves_candidate(u, c, n, s.nominators[n].nominations[c])
        IN IF left = {} THEN u ELSE CHOOSE v \in left : TRUE
      gone == FoldLeft(Leave, s, Collators(s, n))
  IN Guard(/\ is_nominator(s, n) /\ AllRevoked(s, n)
           /\ \A c \in DOMAIN s.nominators[n].nominations :
                RequestOf(s, c, n).when_executable <= era.current,
           {[gone EXCEPT !.nominators = Drop(@, n), !.nominatorLock[n] = 0]})

(***************************************************************************)
(* Candidates.                                                             *)
(***************************************************************************)
join_candidates(s, a, bond, registered) ==
  Guard(/\ ~is_candidate(s, a) /\ ~is_nominator(s, a)
        /\ bond >= minCollatorStake /\ registered
        /\ get_collator_stakable_free_balance(s, a) >= bond,
        {[s EXCEPT !.pool = pool, !.collatorLock[a] = bond,
                   !.info = Put(@, a, CandidateMetadata_new(bond)),
                   !.top = Put(@, a, NoNominations), !.bottom = Put(@, a, NoNominations),
                   !.total = @ + bond] : pool \in try_insert(s.pool, a, bond, MaxCandidates)})

schedule_leave_candidates(s, c) ==
  Guard(is_candidate(s, c) /\ ~is_leaving(s.info[c]),
        {[s EXCEPT !.pool = Drop(@, c), !.info[c].status = Leaving(era.current + delay)]})

Rejoin(s, c) ==
  {[s EXCEPT !.pool = pool, !.info[c].status = Active] :
     pool \in try_insert(s.pool, c, s.info[c].total_counted, MaxCandidates)}

cancel_leave_candidates(s, c) == Guard(is_candidate(s, c) /\ is_leaving(s.info[c]), Rejoin(s, c))

go_offline(s, c) ==
  Guard(is_candidate(s, c) /\ is_active(s.info[c]),
        {[s EXCEPT !.pool = Drop(@, c), !.info[c].status = Idle]})

go_online(s, c) ==
  Guard(is_candidate(s, c) /\ s.info[c].status = Idle, Rejoin(s, c))

return_stake(s, c, n) ==
  LET t == nomination_remove_request_with_state(rm_nomination(s, n, c), c, n) IN
  IF c \notin DOMAIN s.nominators[n].nominations THEN [s EXCEPT !.nominatorLock[n] = 0]
  ELSE IF t.nominators[n].total = 0
  THEN [t EXCEPT !.nominators = Drop(@, n), !.nominatorLock[n] = 0] ELSE t

execute_leave_candidates(s, c) ==
  LET backers == s.top[c].nominations \o s.bottom[c].nominations
      backing == s.info[c].bond + s.top[c].total + s.bottom[c].total
      t == FoldLeft(LAMBDA u, b : return_stake(u, c, b.owner), s, backers)
  IN Guard(/\ is_candidate(s, c) /\ is_leaving(s.info[c])
           /\ era.current >= s.info[c].status.until,
           {[t EXCEPT !.info = Drop(@, c), !.top = Drop(@, c), !.bottom = Drop(@, c),
                      !.requests[c] = <<>>, !.collatorLock[c] = 0,
                      !.total = saturating_sub(@, backing)]})

BondChanged(s, c, bond, total) ==
  LET counted == saturating_sub(s.info[c].total_counted + bond, s.info[c].bond)
      t == [s EXCEPT !.info[c].bond = bond, !.info[c].total_counted = counted,
                     !.collatorLock[c] = bond, !.total = total]
  IN IF is_active(t.info[c]) THEN update_active(t, c, counted) ELSE t

call_candidate_bond_extra(s, c, more) ==
  Guard(is_candidate(s, c) /\ get_collator_stakable_free_balance(s, c) >= more,
        {BondChanged(s, c, s.info[c].bond + more, s.total + more)})

call_schedule_candidate_unbond(s, c, less) ==
  LET m == s.info[c] IN
  Guard(/\ is_candidate(s, c) /\ m.request = NoRequest
        /\ m.bond > less /\ m.bond - less >= minCollatorStake,
        {[s EXCEPT !.info[c].request =
            [amount |-> less, when_executable |-> era.current + delay]]})

call_execute_candidate_unbond(s, c) ==
  LET m == s.info[c]
      t == [s EXCEPT !.info[c].request = NoRequest]
  IN Guard(/\ is_candidate(s, c) /\ m.request # NoRequest
           /\ m.request.when_executable <= era.current,
           {BondChanged(t, c, saturating_sub(m.bond, m.request.amount),
                        saturating_sub(s.total, m.request.amount))})

cancel_candidate_unbond(s, c) ==
  Guard(is_candidate(s, c) /\ s.info[c].request # NoRequest,
        {[s EXCEPT !.info[c].request = NoRequest]})

(***************************************************************************)
(* The proxied calls, which spread one amount over several candidates.     *)
(* `lucky' is the block number modulo the number of candidates: it decides *)
(* who gets what the division leaves over.                                 *)
(***************************************************************************)
\* Perbill::from_rational(p, q) * x, rounded to the nearest, ties down.
Perbill(p, q, x) == IF q = 0 \/ p >= q THEN x ELSE (2 * x * p + q - 1) \div (2 * q)
Lesser(a, b) == IF a < b THEN a ELSE b
collator_should_get_dust(dust, lucky, i) == dust # 0 /\ i = lucky + 1

\* What each of k candidates gets.
Shares(k, amount, lucky) ==
  LET each == Perbill(1, k, amount)
      dust == saturating_sub(amount, each * k)
      Share(r, i) ==
        LET want == each + (IF collator_should_get_dust(dust, lucky, i) THEN dust ELSE 0)
            x == Lesser(r.left, want)
        IN [given |-> Append(r.given, x), left |-> r.left - x]
  IN FoldLeft(Share, [given |-> <<>>, left |-> amount], [i \in 1..k |-> i]).given

split_and_nominate(s, n, targets, amount, lucky) ==
  LET shares == Shares(Len(targets), amount, lucky)
      Nominate(ledgers, i) == Then(ledgers, LAMBDA t : call_nominate(t, n, targets[i], shares[i]))
  IN Guard(/\ amount >= minTotalNominatorStake * Len(targets)
           /\ get_nominator_stakable_free_balance(s, n) >= amount,
           FoldLeft(Nominate, {s}, [i \in DOMAIN targets |-> i]))

signed_bond_extra(s, n, amount, lucky) ==
  LET targets == Collators(s, n)
      shares == Shares(Len(targets), amount, lucky)
      Extra(ledgers, i) == Then(ledgers, LAMBDA t : call_bond_extra(t, n, targets[i], shares[i]))
  IN Guard(/\ is_nominator(s, n) /\ get_nominator_stakable_free_balance(s, n) >= amount
           /\ Perbill(1, Len(targets), amount) >= MinNominationPerCollator,
           FoldLeft(Extra, {s}, [i \in DOMAIN targets |-> i]))

identify_collators_to_withdraw_from(st, order, reduction, target) ==
  LET Payer(r, c) ==
        LET amount == st.nominations[c]
            x == Lesser(r.outstanding, saturating_sub(amount, target))
        IN IF r.outstanding = 0 /\ r.payers # <<>> THEN r
           ELSE [outstanding |-> r.outstanding - x,
                 payers |-> Append(r.payers,
                   [owner |-> c, reserved_amount |-> x,
                    free_amount |-> amount - (x + MinNominationPerCollator)])]
  IN FoldLeft(Payer, [outstanding |-> reduction, payers |-> <<>>], order)

signed_schedule_nominator_unbond(s, n, less) ==
  LET st == s.nominators[n]
      net == saturating_sub(st.total, st.less_total)
      target == Perbill(1, Cardinality(DOMAIN st.nominations), saturating_sub(net, less))
      found == identify_collators_to_withdraw_from(st, Collators(s, n), less, target)
      Withdraw(r, p) ==
        LET x == Lesser(p.free_amount, r.outstanding) IN
        [outstanding |-> r.outstanding - x,
         ledgers |-> Then(r.ledgers, LAMBDA t :
            nomination_schedule_bond_decrease(t, p.owner, n, p.reserved_amount + x))]
      done == FoldLeft(Withdraw, [outstanding |-> found.outstanding, ledgers |-> {s}], found.payers)
  IN Guard(is_nominator(s, n),
           Guard(net >= minTotalNominatorStake + less /\ target >= MinNominationPerCollator,
                 Guard(done.outstanding = 0, done.ledgers)))

signed_execute_nomination_request(s, n) ==
  LET Execute(outcomes, c) ==
        Then(outcomes, LAMBDA t :
          Guard(nomination_request_exists(t, c, n),
                IF RequestOf(t, c, n).when_executable > era.current THEN {t}
                ELSE nomination_execute_scheduled_request(t, c, n)))
  IN Guard(is_nominator(s, n), FoldLeft(Execute, {s}, Collators(s, n)))
=============================================================================
