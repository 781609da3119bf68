--------------------------- MODULE StakingLedger ---------------------------
(***************************************************************************)
(* The book-keeping of the parachain-staking pallet: candidates and their  *)
(* self bonds, the top and bottom nominations of each candidate, the       *)
(* nominators, the scheduled requests, the candidate pool, the running     *)
(* total and the currency locks.                                           *)
(*                                                                         *)
(* One storage operation writes several of these maps through nested       *)
(* calls, so the maps are the fields of one record, `ledger', and an       *)
(* operation of the pallet is an operator from a ledger to the SET of the  *)
(* ledgers it may leave: the empty set is an error, which the runtime      *)
(* rolls back, and a singleton is success.                                 *)
(***************************************************************************)
EXTENDS Integers, Sequences, FiniteSets, SequencesExt, FiniteSetsExt

CONSTANTS
  AccountSeq,                        \* the accounts of the chain, in their order
  MaxCandidates,
  MaxTopNominationsPerCandidate,
  MaxBottomNominationsPerCandidate,
  MaxNominationsPerNominator,
  MinNominationPerCollator

ASSUME LedgerConstants ==
  /\ MaxCandidates \in Nat /\ MaxNominationsPerNominator \in Nat
  /\ MaxTopNominationsPerCandidate \in Nat \ {0}
  /\ MaxBottomNominationsPerCandidate \in Nat \ {0}
  /\ MinNominationPerCollator \in Nat \ {0}

VARIABLES
  ledger,                            \* the storage maps described above
  free,                              \* free balance of every account
  era,                               \* [current, age, length]: age is the blocks since its first
  delay,                             \* Delay: eras a request waits
  minCollatorStake, minTotalNominatorStake

Accounts == {AccountSeq[i] : i \in DOMAIN AccountSeq}
saturating_sub(a, b) == IF a > b THEN a - b ELSE 0
Put(f, k, v) == [x \in DOMAIN f \cup {k} |-> IF x = k THEN v ELSE f[x]]
Drop(f, k) == [x \in DOMAIN f \ {k} |-> f[x]]
SumOver(S, f(_)) == FoldSet(LAMBDA x, acc : acc + f(x), 0, S)

(***************************************************************************)
(* Nominations: a list of bonds, greatest first, and their total.          *)
(***************************************************************************)
Bond(o, a) == [owner |-> o, amount |-> a]
NoNominations == [nominations |-> <<>>, total |-> 0]
Owners(ns) == {ns.nominations[i].owner : i \in DOMAIN ns.nominations}
AmountOf(ns, n) ==
  LET i == CHOOSE j \in DOMAIN ns.nominations : ns.nominations[j].owner = n
  IN ns.nominations[i].amount

\* First come, first served: after every bond of the same amount.
insert_sorted_greatest_to_least(ns, b) ==
  LET above == {i \in DOMAIN ns.nominations : ns.nominations[i].amount >= b.amount}
  IN [nominations |-> InsertAt(ns.nominations, Cardinality(above) + 1, b),
      total |-> ns.total + b.amount]

sort_greatest_to_least(ns) ==
  [ns EXCEPT !.nominations =
     FoldLeft(insert_sorted_greatest_to_least, NoNominations, @).nominations]

capacity(ns, max) ==
  IF Len(ns.nominations) >= max THEN "Full"
  ELSE IF ns.nominations = <<>> THEN "Empty" ELSE "Partial"
top_capacity(ns) == capacity(ns, MaxTopNominationsPerCandidate)
bottom_capacity(ns) == capacity(ns, MaxBottomNominationsPerCandidate)

lowest_nomination_amount(ns) ==
  IF ns.nominations = <<>> THEN 0 ELSE Last(ns.nominations).amount
highest_nomination_amount(ns) ==
  IF ns.nominations = <<>> THEN 0 ELSE Head(ns.nominations).amount

\* The list without the bond of n, and with its amount changed by d.
Without(ns, n) ==
  [nominations |-> SelectSeq(ns.nominations, LAMBDA b : b.owner # n),
   total |-> saturating_sub(ns.total, AmountOf(ns, n))]
Pop(ns) == Without(ns, Last(ns.nominations).owner)
Changed(ns, n, amount) ==
  [ns EXCEPT !.nominations =
     [i \in DOMAIN @ |-> IF @[i].owner = n THEN Bond(n, amount) ELSE @[i]]]

(***************************************************************************)
(* Candidate metadata, and the pool of the active candidates.              *)
(***************************************************************************)
NoRequest == [amount |-> 0, when_executable |-> 0]
Active == [kind |-> "Active", until |-> 0]
Idle == [kind |-> "Idle", until |-> 0]
Leaving(when) == [kind |-> "Leaving", until |-> when]

CandidateMetadata_new(bond) ==
  [bond |-> bond, nomination_count |-> 0, total_counted |-> bond,
   lowest_top_nomination_amount |-> 0, highest_bottom_nomination_amount |-> 0,
   lowest_bottom_nomination_amount |-> 0, top_capacity |-> "Empty",
   bottom_capacity |-> "Empty", request |-> NoRequest, status |-> Active]

is_candidate(s, a) == a \in DOMAIN s.info
is_nominator(s, a) == a \in DOMAIN s.nominators
is_active(m) == m.status = Active
is_leaving(m) == m.status.kind = "Leaving"

get_nominator_stakable_free_balance(s, a) ==
  saturating_sub(free[a], IF is_nominator(s, a) THEN s.nominators[a].total ELSE 0)
get_collator_stakable_free_balance(s, a) ==
  saturating_sub(free[a], IF is_candidate(s, a) THEN s.info[a].bond ELSE 0)

\* BoundedOrderedSet: at most one bond per owner, at most max bonds.
try_insert(set, k, v, max) ==
  IF k \notin DOMAIN set /\ Cardinality(DOMAIN set) < max THEN {Put(set, k, v)} ELSE {}

update_active(s, c, total) ==
  LET others == Drop(s.pool, c)
      inserted == try_insert(others, c, total, MaxCandidates)
  IN [s EXCEPT !.pool = IF inserted = {} THEN others ELSE CHOOSE p \in inserted : TRUE]

\* Both resets are followed, in every caller, by the write of the list.
reset_top_data(s, c, ns) ==
  LET m == [s.info[c] EXCEPT
              !.lowest_top_nomination_amount = lowest_nomination_amount(ns),
              !.top_capacity = top_capacity(ns),
              !.total_counted = s.info[c].bond + ns.total]
      t == [s EXCEPT !.info[c] = m, !.top[c] = ns]
  IN IF m.total_counted # s.info[c].total_counted /\ is_active(m)
     THEN update_active(t, c, m.total_counted) ELSE t

reset_bottom_data(s, c, ns) ==
  [s EXCEPT !.bottom[c] = ns,
            !.info[c].lowest_bottom_nomination_amount = lowest_nomination_amount(ns),
            !.info[c].highest_bottom_nomination_amount = highest_nomination_amount(ns),
            !.info[c].bottom_capacity = bottom_capacity(ns)]

(***************************************************************************)
(* Nominators and scheduled requests.                                      *)
(***************************************************************************)
Nominator_new(c, amount) ==
  [nominations |-> [x \in {c} |-> amount], total |-> amount, less_total |-> 0]

\* adjust_bond_lock: the lock of a nominator is set to its total.
SetNominator(s, n, st) ==
  [s EXCEPT !.nominators = Put(@, n, st), !.nominatorLock[n] = st.total]

rm_nomination(s, n, c) ==
  LET st == s.nominators[n] IN
  IF c \notin DOMAIN st.nominations THEN s
  ELSE SetNominator(s, n, [st EXCEPT !.nominations = Drop(@, c),
                                     !.total = saturating_sub(@, st.nominations[c])])

RequestIdx(s, c, n) == SelectInSeq(s.requests[c], LAMBDA r : r.nominator = n)
nomination_request_exists(s, c, n) == RequestIdx(s, c, n) # 0
RequestOf(s, c, n) == s.requests[c][RequestIdx(s, c, n)]
nomination_request_revoke_exists(s, c, n) ==
  \E i \in DOMAIN s.requests[c] :
    s.requests[c][i].nominator = n /\ s.requests[c][i].action = "Revoke"

cancel_request_with_state(s, c, n) ==
  IF ~nomination_request_exists(s, c, n) THEN s
  ELSE [s EXCEPT
          !.requests[c] = RemoveAt(@, RequestIdx(s, c, n)),
          !.nominators[n].less_total = saturating_sub(@, RequestOf(s, c, n).amount)]

nomination_remove_request_with_state(s, c, n) == cancel_request_with_state(s, c, n)

\* A full list of requests drops the new one, and the call still succeeds.
PushRequest(s, c, r) ==
  IF Len(s.requests[c]) >= MaxNominationsPerNominator THEN s
  ELSE [s EXCEPT !.requests[c] = Append(@, r),
                 !.nominators[r.nominator].less_total = @ + r.amount]

Request(n, action, amount) ==
  [nominator |-> n, action |-> action, amount |-> amount,
   when_executable |-> era.current + delay]

(***************************************************************************)
(* The nominations of a candidate.                                         *)
(***************************************************************************)
\* The lowest bottom nomination gives way; its owner may stop nominating.
Kick(s, c) ==
  LET n == Last(s.bottom[c].nominations).owner
      t == nomination_remove_request_with_state(rm_nomination(s, n, c), c, n)
  IN IF Cardinality(DOMAIN s.nominators[n].nominations) = 1
     THEN [t EXCEPT !.nominators = Drop(@, n)] ELSE t

add_bottom_nomination(s, bumped_from_top, c, b) ==
  LET full == Len(s.bottom[c].nominations) = MaxBottomNominationsPerCandidate
      t == IF full THEN Kick(s, c) ELSE s
      room == IF full THEN Pop(s.bottom[c]) ELSE s.bottom[c]
      u == reset_bottom_data(t, c, insert_sorted_greatest_to_least(room, b))
  IN [u EXCEPT !.info[c].nomination_count =
        @ + (IF ~full /\ ~bumped_from_top THEN 1 ELSE 0)]

\* `less' is the amount of the nomination that is kicked, -1 if none is.
add_top_nomination(s, c, b) ==
  LET full == Len(s.top[c].nominations) = MaxTopNominationsPerCandidate
      less == IF full /\ s.info[c].bottom_capacity = "Full"
              THEN s.info[c].lowest_bottom_nomination_amount ELSE -1
      t == IF full THEN add_bottom_nomination(s, TRUE, c, Last(s.top[c].nominations)) ELSE s
      room == IF full THEN Pop(s.top[c]) ELSE s.top[c]
      u == reset_top_data(t, c, insert_sorted_greatest_to_least(room, b))
  IN [ledger |-> [u EXCEPT !.info[c].nomination_count = @ + (IF less = -1 THEN 1 ELSE 0)],
      less |-> less]

add_nomination(s, c, b) ==
  LET m == s.info[c]
      full == m.bottom_capacity = "Full"
      lowest == m.lowest_bottom_nomination_amount
  IN IF m.top_capacity # "Full" \/ m.lowest_top_nomination_amount < b.amount
     THEN {add_top_nomination(s, c, b)}
     ELSE IF full /\ b.amount <= lowest THEN {}
     ELSE {[ledger |-> add_bottom_nomination(s, FALSE, c, b),
            less |-> IF full THEN lowest ELSE -1]}

\* A mutant of rm_top_nomination: nobody moves up from the bottom.
rm_top_nomination_no_bump(s, c, n) ==
  IF n \notin Owners(s.top[c]) THEN {}
  ELSE {[reset_top_data(s, c, Without(s.top[c], n))
           EXCEPT !.info[c].nomination_count = saturating_sub(@, 1)]}

rm_top_nomination(s, c, n) ==
  LET bumped == s.info[c].bottom_capacity # "Empty"
      highest == Head(s.bottom[c].nominations)
      rest == Without(s.top[c], n)
      t == IF bumped THEN reset_bottom_data(s, c, Without(s.bottom[c], highest.owner)) ELSE s
      u == reset_top_data(t, c, IF bumped THEN insert_sorted_greatest_to_least(rest, highest)
                                ELSE rest)
  IN IF n \notin Owners(s.top[c]) THEN {}
     ELSE {[u EXCEPT !.info[c].nomination_count = saturating_sub(@, 1)]}

rm_bottom_nomination(s, c, n) ==
  IF n \notin Owners(s.bottom[c]) THEN {}
  ELSE {[reset_bottom_data(s, c, Without(s.bottom[c], n))
           EXCEPT !.info[c].nomination_count = saturating_sub(@, 1)]}

\* A mutant of InTopOrBottom: a tie between the lists is taken to be in the top.
InTopOrBottom_tie(m, bond, top, bottom) ==
  IF bond >= m.lowest_top_nomination_amount THEN top ELSE bottom

\* Which list a bond is in is read off the cached amounts of the metadata.
InTopOrBottom(m, bond, top, bottom) ==
  LET geq == bond >= m.lowest_top_nomination_amount
      eq == m.lowest_top_nomination_amount = m.highest_bottom_nomination_amount
  IN IF geq /\ (~eq \/ top # {}) THEN top ELSE bottom

rm_nomination_if_exists(s, c, n, amount) ==
  IF s.info[c].top_capacity # "Full" THEN rm_top_nomination(s, c, n)
  ELSE InTopOrBottom(s.info[c], amount, rm_top_nomination(s, c, n), rm_bottom_nomination(s, c, n))

increase_top_nomination(s, c, n, more) ==
  IF n \notin Owners(s.top[c]) THEN {}
  ELSE LET grown == Changed(s.top[c], n, AmountOf(s.top[c], n) + more)
       IN {reset_top_data(s, c, sort_greatest_to_least([grown EXCEPT !.total = @ + more]))}

increase_bottom_nomination(s, c, n, bond, more) ==
  IF n \notin Owners(s.bottom[c]) THEN {}
  ELSE IF bond + more > s.info[c].lowest_top_nomination_amount
  THEN LET full == top_capacity(s.top[c]) = "Full"
           rest == Without(s.bottom[c], n)
           bottom == IF full THEN insert_sorted_greatest_to_least(rest, Last(s.top[c].nominations))
                     ELSE rest
           top == insert_sorted_greatest_to_least(
                    IF full THEN Pop(s.top[c]) ELSE s.top[c], Bond(n, bond + more))
       IN {reset_bottom_data(reset_top_data(s, c, top), c, bottom)}
  ELSE LET grown == Changed(s.bottom[c], n, AmountOf(s.bottom[c], n) + more)
       IN {reset_bottom_data(s, c, sort_greatest_to_least([grown EXCEPT !.total = @ + more]))}

increase_nomination(s, c, n, bond, more) ==
  InTopOrBottom(s.info[c], bond, increase_top_nomination(s, c, n, more),
                increase_bottom_nomination(s, c, n, bond, more))

decrease_top_nomination(s, c, n, bond, less) ==
  LET m == s.info[c]
      amount == saturating_sub(AmountOf(s.top[c], n), less)
      highest == Head(s.bottom[c].nominations)
      swap == /\ saturating_sub(bond, less) < m.highest_bottom_nomination_amount
              /\ m.top_capacity = "Full" /\ m.bottom_capacity # "Empty"
      kept == [Changed(s.top[c], n, amount) EXCEPT !.total = saturating_sub(@, less)]
  IN IF n \notin Owners(s.top[c]) THEN {}
     ELSE IF swap
     THEN {reset_top_data(
             reset_bottom_data(s, c, insert_sorted_greatest_to_least(
                                       Without(s.bottom[c], highest.owner), Bond(n, amount))),
             c, insert_sorted_greatest_to_least(Without(s.top[c], n), highest))}
     ELSE {reset_top_data(s, c, sort_greatest_to_least(kept))}

\* The total of the bottom list is not reduced.
decrease_bottom_nomination(s, c, n, less) ==
  IF n \notin Owners(s.bottom[c]) THEN {}
  ELSE LET amount == saturating_sub(AmountOf(s.bottom[c], n), less)
       IN {reset_bottom_data(s, c, sort_greatest_to_least(Changed(s.bottom[c], n, amount)))}

decrease_nomination(s, c, n, bond, less) ==
  InTopOrBottom(s.info[c], bond, decrease_top_nomination(s, c, n, bond, less),
                decrease_bottom_nomination(s, c, n, less))
=============================================================================
