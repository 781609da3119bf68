------------------------------- MODULE Staking -------------------------------
(***************************************************************************)
(* The extrinsics of the parachain-staking pallet that move stake, with    *)
(* the eras that pass between them.  A step is one successful extrinsic    *)
(* (a refused one is rolled back and changes nothing), the proxied form of *)
(* one, an administrator's setting, or the start of an era.                *)
(***************************************************************************)
EXTENDS StakingCalls

CONSTANTS
  GenesisBonds,       \* the candidates of the genesis block and their bonds
  Registered,         \* accounts with session keys
  Balances,           \* the free balance of every account
  Amounts,            \* amounts callers name
  Signers,            \* accounts that also sign calls for a relayer
  Delays, MinStakes,  \* values an administrator may set
  StakingEnabled,     \* is_staking_enabled(): only test builds nominate
  MinBlocksPerEra,
  MaxEra, MaxNonce, MaxSettings

VARIABLES nonces,     \* ProxyNonces
          settings    \* administrator's settings made so far (bound)

stakingVars == <<ledger, free, era, delay, minCollatorStake, minTotalNominatorStake,
                 nonces, settings>>

GenesisLedger ==
  LET cs == DOMAIN GenesisBonds IN
  [info |-> [c \in cs |-> CandidateMetadata_new(GenesisBonds[c])],
   top |-> [c \in cs |-> NoNominations], bottom |-> [c \in cs |-> NoNominations],
   nominators |-> [x \in {} |-> 0], requests |-> [a \in Accounts |-> <<>>],
   pool |-> GenesisBonds, total |-> SumOver(cs, LAMBDA c : GenesisBonds[c]),
   collatorLock |-> [a \in Accounts |-> IF a \in cs THEN GenesisBonds[a] ELSE 0],
   nominatorLock |-> [a \in Accounts |-> 0]]

StakingInit ==
  /\ ledger = GenesisLedger
  /\ free = Balances
  /\ era = [current |-> 1, age |-> 0, length |-> MinBlocksPerEra + 2]
  /\ delay \in Delays
  /\ minCollatorStake \in MinStakes
  /\ minTotalNominatorStake \in {m \in MinStakes : m >= MinNominationPerCollator}
  /\ nonces = [a \in Accounts |-> 0]
  /\ settings = 0

Call(outcomes) ==
  /\ \E s \in outcomes : ledger' = s
  /\ UNCHANGED <<free, era, delay, minCollatorStake, minTotalNominatorStake, nonces, settings>>

\* The payload a signs: beside the call's arguments, the nonce k it was signed for.
SignedPayload(a, k) == [signer |-> a, nonce |-> k]
signature_is_valid(payload) ==
  payload.signer \in Signers /\ payload.nonce = nonces[payload.signer]

\* A proxied call consumes the nonce it was signed for.
Signed(a, k, outcomes) ==
  /\ signature_is_valid(SignedPayload(a, k)) /\ k < MaxNonce
  /\ \E s \in outcomes : ledger' = s
  /\ nonces' = [nonces EXCEPT ![a] = @ + 1]
  /\ UNCHANGED <<free, era, delay, minCollatorStake, minTotalNominatorStake, settings>>

JoinCandidates(a) ==
  \E x \in Amounts : Call(join_candidates(ledger, a, x, a \in Registered))
ScheduleLeaveCandidates(a) == Call(schedule_leave_candidates(ledger, a))
ExecuteLeaveCandidates(a) == Call(execute_leave_candidates(ledger, a))
CancelLeaveCandidates(a) == Call(cancel_leave_candidates(ledger, a))
GoOffline(a) == Call(go_offline(ledger, a))
GoOnline(a) == Call(go_online(ledger, a))
CandidateBondExtra(a) == \E x \in Amounts : Call(call_candidate_bond_extra(ledger, a, x))
ScheduleCandidateUnbond(a) ==
  \E x \in Amounts : Call(call_schedule_candidate_unbond(ledger, a, x))
ExecuteCandidateUnbond(a) == Call(call_execute_candidate_unbond(ledger, a))
CancelCandidateUnbond(a) == Call(cancel_candidate_unbond(ledger, a))

Nominate(n, c) ==
  StakingEnabled /\ \E x \in Amounts : Call(call_nominate(ledger, n, c, x))
BondExtra(n, c) ==
  StakingEnabled /\ \E x \in Amounts : Call(call_bond_extra(ledger, n, c, x))
ScheduleLeaveNominators(n) == Call(nominator_schedule_revoke_all(ledger, n))
ExecuteLeaveNominators(n) == Call(nominator_execute_scheduled_revoke_all(ledger, n))
CancelLeaveNominators(n) == Call(nominator_cancel_scheduled_revoke_all(ledger, n))
ScheduleRevokeNomination(n, c) == Call(nomination_schedule_revoke(ledger, c, n))
ScheduleNominatorUnbond(n, c) ==
  \E x \in Amounts : Call(nomination_schedule_bond_decrease(ledger, c, n, x))
ExecuteNominationRequest(n, c) == Call(nomination_execute_scheduled_request(ledger, c, n))
CancelNominationRequest(n, c) == Call(nomination_cancel_request(ledger, c, n))

SignedCandidateBondExtra(a, k) ==
  \E x \in Amounts : Signed(a, k, call_candidate_bond_extra(ledger, a, x))
SignedScheduleCandidateUnbond(a, k) ==
  \E x \in Amounts : Signed(a, k, call_schedule_candidate_unbond(ledger, a, x))
SignedExecuteCandidateUnbond(a, k) ==
  \E c \in Accounts : Signed(a, k, call_execute_candidate_unbond(ledger, c))
SignedNominate(n, k) ==
  /\ StakingEnabled
  /\ \E x \in Amounts, c, d \in Accounts, lucky \in 0..1 :
       Signed(n, k, split_and_nominate(ledger, n, IF c = d THEN <<c>> ELSE <<c, d>>, x, lucky))
SignedBondExtra(n, k) ==
  /\ StakingEnabled
  /\ \E x \in Amounts, lucky \in 0..1 : Signed(n, k, signed_bond_extra(ledger, n, x, lucky))
SignedScheduleLeaveNominators(n, k) == Signed(n, k, nominator_schedule_revoke_all(ledger, n))
SignedExecuteLeaveNominators(a, k) ==
  \E n \in Accounts : Signed(a, k, nominator_execute_scheduled_revoke_all(ledger, n))
SignedScheduleRevokeNomination(n, k) ==
  \E c \in Accounts : Signed(n, k, nomination_schedule_revoke(ledger, c, n))
SignedScheduleNominatorUnbond(n, k) ==
  \E x \in Amounts : Signed(n, k, signed_schedule_nominator_unbond(ledger, n, x))
SignedExecuteNominationRequest(a, k) ==
  \E n \in Accounts : Signed(a, k, signed_execute_nomination_request(ledger, n))

\* Only the empty list of a candidate that left may be removed.
hotfix_remove_nomination_requests_exited_candidates(a) ==
  Call(Guard(~is_candidate(ledger, a) /\ ledger.requests[a] = <<>>,
             {[ledger EXCEPT !.requests[a] = <<>>]}))

set_admin_setting ==
  /\ settings < MaxSettings /\ settings' = settings + 1
  /\ \/ \E d \in Delays : /\ d > 0 /\ delay' = d
                          /\ UNCHANGED <<minCollatorStake, minTotalNominatorStake>>
     \/ \E m \in MinStakes : /\ minCollatorStake' = m
                             /\ UNCHANGED <<delay, minTotalNominatorStake>>
     \/ \E m \in MinStakes : /\ m >= MinNominationPerCollator
                             /\ minTotalNominatorStake' = m
                             /\ UNCHANGED <<delay, minCollatorStake>>
  /\ UNCHANGED <<ledger, free, era, nonces>>

\* What on_initialize does to the variables of this module at an era's end.
NewEra ==
  /\ era.current < MaxEra
  /\ era' = [era EXCEPT !.current = @ + 1, !.age = 0]
  /\ UNCHANGED <<ledger, free, delay, minCollatorStake, minTotalNominatorStake, nonces, settings>>

CandidateStep(a) ==
  \/ JoinCandidates(a) \/ ScheduleLeaveCandidates(a) \/ ExecuteLeaveCandidates(a)
  \/ CancelLeaveCandidates(a) \/ GoOffline(a) \/ GoOnline(a)
  \/ CandidateBondExtra(a) \/ ScheduleCandidateUnbond(a) \/ ExecuteCandidateUnbond(a)
  \/ CancelCandidateUnbond(a)
  \/ hotfix_remove_nomination_requests_exited_candidates(a)

NominatorStep(n, targets) ==
  \/ ScheduleLeaveNominators(n) \/ ExecuteLeaveNominators(n) \/ CancelLeaveNominators(n)
  \/ \E c \in targets :
       \/ Nominate(n, c) \/ BondExtra(n, c)
       \/ ScheduleRevokeNomination(n, c) \/ ScheduleNominatorUnbond(n, c)
       \/ ExecuteNominationRequest(n, c) \/ CancelNominationRequest(n, c)

SignedStep(a, k) ==
  \/ SignedCandidateBondExtra(a, k) \/ SignedScheduleCandidateUnbond(a, k)
  \/ SignedExecuteCandidateUnbond(a, k)
  \/ SignedNominate(a, k) \/ SignedBondExtra(a, k) \/ SignedScheduleLeaveNominators(a, k)
  \/ SignedExecuteLeaveNominators(a, k) \/ SignedScheduleRevokeNomination(a, k)
  \/ SignedScheduleNominatorUnbond(a, k) \/ SignedExecuteNominationRequest(a, k)

StakingNext ==
  \/ \E a \in Accounts : CandidateStep(a) \/ NominatorStep(a, Accounts)
  \/ \E a \in Accounts, k \in 0..MaxNonce : SignedStep(a, k)
  \/ set_admin_setting \/ NewEra

StakingSpec == StakingInit /\ [][StakingNext]_stakingVars

-----------------------------------------------------------------------------
\* The amount a nominator has asked to take out of its nominations.
Pending(s, n) ==
  SumOver({c \in Accounts : nomination_request_exists(s, c, n)},
          LAMBDA c : RequestOf(s, c, n).amount)

NominatorsBalance(s) ==
  \A n \in Accounts :
    IF ~is_nominator(s, n) THEN s.nominatorLock[n] = 0
    ELSE LET st == s.nominators[n] IN
      /\ DOMAIN st.nominations # {}
      /\ st.total = SumOver(DOMAIN st.nominations, LAMBDA c : st.nominations[c])
      /\ st.less_total = Pending(s, n)
      /\ s.nominatorLock[n] = st.total /\ st.total <= free[n]
      /\ \A c \in DOMAIN st.nominations :
           /\ is_candidate(s, c)
           /\ \E ns \in {s.top[c], s.bottom[c]} :
                n \in Owners(ns) /\ AmountOf(ns, n) = st.nominations[c]

Listed(ns) == SumOver(DOMAIN ns.nominations, LAMBDA i : ns.nominations[i].amount)
Ordered(q) == \A i, j \in DOMAIN q : i < j => q[i].amount >= q[j].amount

CandidatesBalance(s) ==
  /\ \A c \in DOMAIN s.info :
       LET m == s.info[c]
           both == s.top[c].nominations \o s.bottom[c].nominations
       IN /\ s.collatorLock[c] = m.bond /\ m.bond <= free[c]
          /\ m.nomination_count = Len(both)
          /\ Cardinality(Owners(s.top[c]) \cup Owners(s.bottom[c])) = Len(both)
          /\ \A n \in Owners(s.top[c]) \cup Owners(s.bottom[c]) :
               is_nominator(s, n) /\ c \in DOMAIN s.nominators[n].nominations
          /\ Ordered(both)
          /\ s.top[c].total = Listed(s.top[c]) /\ s.bottom[c].total >= Listed(s.bottom[c])
          /\ m.total_counted = m.bond + s.top[c].total
          /\ s.bottom[c].nominations # <<>> => top_capacity(s.top[c]) = "Full"
          /\ reset_bottom_data(reset_top_data(s, c, s.top[c]), c, s.bottom[c]) = s
  /\ \A a \in Accounts \ DOMAIN s.info : s.collatorLock[a] = 0 /\ s.requests[a] = <<>>
  /\ s.pool = [c \in {d \in DOMAIN s.info : is_active(s.info[d])} |-> s.info[c].total_counted]

Locked(s) == SumOver(Accounts, LAMBDA a : s.collatorLock[a] + s.nominatorLock[a])

\* The ledger balances after every call: what a nominator has bonded is what the
\* candidates list for it, under one currency lock; a candidate's lists are sorted,
\* the top one is filled first, the cached amounts of CandidateMetadata (which decide
\* where the next call looks for a bond) are those of the lists; the pool holds
\* exactly the active candidates with their counted stake; Total never overstates.
LedgerBalances ==
  NominatorsBalance(ledger) /\ CandidatesBalance(ledger) /\ ledger.total <= Locked(ledger)

\* What explains a nomination that shrank from s to t.
LeftInTime(s, t, n, c) ==
  LET now == IF is_nominator(t, n) /\ c \in DOMAIN t.nominators[n].nominations
             THEN t.nominators[n].nominations[c] ELSE 0
  IN \/ ~is_candidate(t, c)
     \/ /\ nomination_request_exists(s, c, n)
        /\ RequestOf(s, c, n).when_executable <= era.current
        /\ s.nominators[n].nominations[c] - now = RequestOf(s, c, n).amount
     \/ /\ bottom_capacity(s.bottom[c]) = "Full" /\ now = 0
        /\ n = Last(s.bottom[c].nominations).owner

\* No stake leaves early: the lock of a candidate only falls by a request that is
\* due, or when the candidate leaves after its delay; the lock of a nominator only
\* falls by requests that are due, with a candidate that leaves, or when its
\* nomination was the lowest of a full bottom list and was outbid.
NoEarlyExit ==
  [][\A a \in Accounts :
       /\ ledger'.collatorLock[a] < ledger.collatorLock[a] =>
            LET m == ledger.info[a] IN
            IF is_candidate(ledger', a)
            THEN /\ m.request # NoRequest /\ m.request.when_executable <= era.current
                 /\ ledger.collatorLock[a] - ledger'.collatorLock[a] = m.request.amount
            ELSE is_leaving(m) /\ m.status.until <= era.current
       /\ is_nominator(ledger, a) =>
            \A c \in DOMAIN ledger.nominators[a].nominations :
              \/ /\ is_nominator(ledger', a) /\ c \in DOMAIN ledger'.nominators[a].nominations
                 /\ ledger'.nominators[a].nominations[c] >= ledger.nominators[a].nominations[c]
              \/ LeftInTime(ledger, ledger', a, c)]_stakingVars

\* A request that is due can be carried out, unless what it leaves is below the
\* minimum an administrator has set: no stake is trapped by stale metadata.
DueRequestsExecute ==
  \A c \in Accounts : \A i \in DOMAIN ledger.requests[c] :
    LET r == ledger.requests[c][i]
        st == ledger.nominators[r.nominator]
    IN r.when_executable <= era.current =>
         \/ nomination_execute_scheduled_request(ledger, c, r.nominator) # {}
         \/ st.total - r.amount < minTotalNominatorStake

\* Total is the capital locked by the pallet, as its storage item says.
TotalIsLocked == ledger.total = Locked(ledger)

\* A revocation that schedule_revoke_nomination accepts is scheduled, as its
\* documentation says: the request is there to be executed.
AcceptedIsScheduled ==
  \A n, c \in Accounts : \A t \in nomination_schedule_revoke(ledger, c, n) :
    nomination_request_revoke_exists(t, c, n)
=============================================================================
