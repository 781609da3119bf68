---------------------------- MODULE EthereumEvents ----------------------------
(***************************************************************************)
(* The ethereum-events pallet: an event somebody names is checked by the   *)
(* primary validator, may be challenged by the others for a while, and is  *)
(* then applied or dropped.  All of the pallet's storage, its transactions *)
(* in the pool and the nodes' local storage are one record.                *)
(***************************************************************************)
EXTENDS Integers, SequencesExt, FiniteSetsExt, TLC

CONSTANTS
  Authorities,         \* the sequences of validators the sessions may install
  EventIds,            \* pairs of signature and transaction hash
  Watched,             \* the ids whose type the filter admits as primary
  Sees,                \* Sees[v][id]: the receipt v's Ethereum node answers
  Users,
  QuorumFactor, MinEthBlockConfirmation, MINIMUM_EVENT_CHALLENGE_PERIOD,
  ChallengePeriods,    \* values root may try
  Contracts, GenesisContracts,
  MaxUncheckedEvents, MaxEventsPendingChallenges, MaxChallenges,
  FinalityLag,
  MaxEventBlock, MaxIngress, MaxSessions    \* bounds

VARIABLE ee

\* Values of CheckResult.
Ok == "Ok"
Invalid == "Invalid"
HttpErrorCheckingEvent == "HttpErrorCheckingEvent"
InsufficientConfirmations == "InsufficientConfirmations"

EventsInit ==
  ee = [block |-> 0, session |-> 1, ingress |-> 0, unchecked |-> <<>>, pending |-> <<>>,
        processed |-> {}, challenges |-> <<>>, period |-> MINIMUM_EVENT_CHALLENGE_PERIOD,
        contracts |-> GenesisContracts, nonce |-> 0, pool |-> {},
        validated |-> [v \in UNION {Range(s) : s \in Range(Authorities)} |-> {}],
        applied |-> [id \in EventIds |-> 0],   \* no storage: how often the handlers saw it
        last |-> <<>>]                         \* no storage: the last decision

active_validators == Authorities[ee.session]
is_validator(v) == v \in Range(active_validators)
is_primary_for_block(b, v) ==
  active_validators[(b % Len(active_validators)) + 1] = v
finalised == ee.block - FinalityLag

-----------------------------------------------------------------------------
\* What a node finds on Ethereum.

parse_response_to_json(receipt) == receipt.readable
get_status(receipt) == receipt.status
parse_tier1_event(log) == log.parses

\* The first log with the event's signature, if it is well formed.
find_event(receipt, id) ==
  LET logs == SelectSeq(receipt.logs, LAMBDA l : l.topic = id)
  IN IF logs # <<>> /\ Head(logs).formed THEN <<Head(logs)>> ELSE <<>>

is_event_contract_valid(address) == address \in ee.contracts

\* Every block of this chain is one more confirmation.
Confirmations(receipt) == ee.block - receipt.mined

compute_result(receipt, id) ==
  LET log == find_event(receipt, id)
      check(result, data) == [result |-> result, data |-> data]
  IN IF ~parse_response_to_json(receipt) \/ get_status(receipt) # 1 \/ log = <<>>
          THEN check(Invalid, "EmptyEvent")
     ELSE IF ~is_event_contract_valid(log[1].address) \/ ~parse_tier1_event(log[1])
          THEN check(Invalid, "EmptyEvent")
     ELSE IF Confirmations(receipt) < MinEthBlockConfirmation
          THEN check(InsufficientConfirmations, "EmptyEvent")
     ELSE check(Ok, log[1].data)

\* The request may fail at any time.
check_event(v, id) ==
  {compute_result(Sees[v][id], id), [result |-> HttpErrorCheckingEvent, data |-> "EmptyEvent"]}

-----------------------------------------------------------------------------
\* Naming an event.

processed_event_exists(id) == id \in ee.processed
event_exists_in_system(id) ==
  \/ processed_event_exists(id)
  \/ \E i \in DOMAIN ee.unchecked : ee.unchecked[i].id = id
  \/ \E i \in DOMAIN ee.pending : ee.pending[i].id = id

\* Bug: an event that is being challenged may be named again.
add_event_again(id, nonce) ==
  /\ id \in Watched
  /\ ~processed_event_exists(id) /\ \A i \in DOMAIN ee.unchecked : ee.unchecked[i].id # id
  /\ Len(ee.unchecked) < MaxUncheckedEvents
  /\ ee' = [ee EXCEPT !.ingress = @ + 1, !.nonce = nonce,
                      !.unchecked = Append(@, [id |-> id, counter |-> ee.ingress + 1,
                                               at |-> ee.block])]

add_event(id, nonce) ==
  /\ id \in Watched
  /\ ~event_exists_in_system(id)
  /\ Len(ee.unchecked) < MaxUncheckedEvents
  /\ ee' = [ee EXCEPT !.ingress = @ + 1, !.nonce = nonce,
                      !.unchecked = Append(@, [id |-> id, counter |-> ee.ingress + 1,
                                               at |-> ee.block])]

add_ethereum_log(id) == ee.ingress < MaxIngress /\ add_event(id, ee.nonce)
\* The proof is over the sender's nonce, and only the signer may send it.
signed_add_ethereum_log(sender, signer, nonce, id) ==
  /\ ee.ingress < MaxIngress
  /\ sender = signer /\ nonce = ee.nonce
  /\ add_event(id, nonce + 1)

insert_nft_contract(address) ==
  address \in Contracts /\ ee' = [ee EXCEPT !.contracts = @ \cup {address}]
set_event_challenge_period(p) ==
  p >= MINIMUM_EVENT_CHALLENGE_PERIOD /\ ee' = [ee EXCEPT !.period = p]

-----------------------------------------------------------------------------
\* The off-chain workers.  The pool holds one transaction for each tag.

Submit(pool, tx) == IF \E u \in pool : u.tag = tx.tag THEN pool ELSE pool \cup {tx}
At(line, id, counter) == {i \in DOMAIN line : line[i].id = id /\ line[i].counter = counter}

get_events_to_check_if_required == SelectSeq(ee.unchecked, LAMBDA u : u.at <= finalised)
get_next_event_to_process ==
  SelectSeq(ee.pending, LAMBDA p : ee.block > p.readyAfter /\ p.at <= finalised)
can_validate_this_event(p, v) == p.by # v /\ p.id \notin ee.validated[v]
get_next_event_to_validate(v) ==
  SelectSeq(ee.pending, LAMBDA p : can_validate_this_event(p, v) /\ p.at <= finalised)

\* Nothing is sent when the answer is missing or too young: the head of the line waits.
check_event_and_submit_result(pool, v, u) ==
  {IF r.result \in {Ok, Invalid}
   THEN Submit(pool, [tag |-> <<"check", u.id>>, kind |-> "check", id |-> u.id,
                      counter |-> u.counter, by |-> v, at |-> ee.block,
                      result |-> r.result, data |-> r.data])
   ELSE pool : r \in check_event(v, u.id)}
try_check_event(pool, v) ==
  LET todo == get_events_to_check_if_required
  IN IF todo = <<>> THEN {pool} ELSE check_event_and_submit_result(pool, v, Head(todo))

send_event(pool, v, p) ==
  Submit(pool, [tag |-> <<"process", p.id>>, kind |-> "process", id |-> p.id,
                counter |-> p.counter, by |-> v])
try_process_event(pool, v) ==
  LET todo == get_next_event_to_process
  IN IF todo = <<>> THEN pool ELSE send_event(pool, v, Last(todo))

get_challenge_if_required(checked, validated) ==
  /\ validated.result \in {Ok, Invalid}
  /\ ~(validated.result = checked.result /\ validated.data = checked.data)
  /\ ~(validated.result = Invalid /\ checked.result = Invalid)

\* The event is noted as validated before the challenge is sent.
validate_event(v, p) ==
  {IF r.result = HttpErrorCheckingEvent THEN ee
   ELSE [ee EXCEPT !.validated[v] = @ \cup {p.id},
                   !.pool = IF get_challenge_if_required(p, r)
                            THEN Submit(@, [tag |-> <<"challenge", v, p.id>>,
                                            kind |-> "challenge", id |-> p.id,
                                            counter |-> p.counter, by |-> v])
                            ELSE @] : r \in check_event(v, p.id)}
try_validate_event(v) ==
  LET todo == get_next_event_to_validate(v)
  IN IF todo = <<>> THEN {ee} ELSE validate_event(v, Head(todo))

offchain_worker(v) ==
  /\ is_validator(v)
  /\ ee' \in IF is_primary_for_block(ee.block, v)
             THEN {[ee EXCEPT !.pool = try_process_event(p, v)] : p \in try_check_event(ee.pool, v)}
             ELSE try_validate_event(v)

-----------------------------------------------------------------------------
\* The transactions.

MinChallengeVotes == Len(active_validators) \div QuorumFactor
ChallengesOf(id) == IF id \in DOMAIN ee.challenges THEN ee.challenges[id] ELSE <<>>

\* A full list of pending events loses the event.
submit_checkevent_result(tx) ==
  LET i == At(ee.unchecked, tx.id, tx.counter)
      entry == [id |-> tx.id, counter |-> tx.counter, at |-> ee.block, by |-> tx.by,
                result |-> tx.result, data |-> tx.data,
                readyAfter |-> ee.block + ee.period, minVotes |-> MinChallengeVotes,
                carried |-> ChallengesOf(tx.id) # <<>>]   \* no storage
  IN /\ i # {}
     /\ ee' = [ee EXCEPT !.pool = @ \ {tx},
                 !.pending = IF Len(@) < MaxEventsPendingChallenges THEN Append(@, entry) ELSE @,
                 !.unchecked = RemoveAt(@, Min(i))]

challenge_event(tx) ==
  LET i == At(ee.pending, tx.id, tx.counter)
      before == ChallengesOf(tx.id)
  IN /\ i # {} /\ ee.pending[Max(i)].by # tx.by
     /\ tx.by \notin Range(before)
     /\ ee' = [ee EXCEPT !.pool = @ \ {tx},
                 !.challenges = IF Len(before) < MaxChallenges
                                THEN (tx.id :> Append(before, tx.by)) @@ @ ELSE @]

\* Bug: as many challenges as the threshold are enough.
is_challenge_successful_at_threshold(p) ==
  Len(ChallengesOf(p.id)) >= Max({p.minVotes, MinChallengeVotes})

is_challenge_successful(p) ==
  Len(ChallengesOf(p.id)) > Max({p.minVotes, MinChallengeVotes})

get_pending_event_index(id) == {i \in DOMAIN ee.pending : ee.pending[i].id = id}

\* The one who checked a challenged event is reported, and the challenges stay; or
\* else the challengers are reported, and the challenges go.
create_and_report_invalid_log_offence(p, successful) ==
  IF successful THEN {p.by} ELSE Range(ChallengesOf(p.id))

process_event(tx) ==
  LET found == get_pending_event_index(tx.id)
      i == Max(found)
      p == ee.pending[i]
      successful == is_challenge_successful(p)
      fresh == ~processed_event_exists(tx.id)
      resubmittable == p.result = Invalid \/ (successful /\ fresh)
      applied == p.result = Ok /\ ~successful /\ fresh
  IN /\ found # {}
     /\ ee.block > p.readyAfter
     /\ ee' = [ee EXCEPT !.pool = @ \ {tx},
                 !.pending = RemoveAt(@, i),
                 !.processed = IF resubmittable THEN @ ELSE @ \cup {tx.id},
                 !.challenges = IF successful THEN @
                                ELSE [id \in DOMAIN @ \ {tx.id} |-> @[id]],
                 !.applied[tx.id] = IF applied THEN @ + 1 ELSE @,
                 !.last = [checked |-> p, applied |-> applied, successful |-> successful,
                           waiting |-> {v \in Range(active_validators) \ {p.by} :
                                          \/ p.id \notin ee.validated[v]
                                          \/ \E u \in ee.pool : u.tag = <<"challenge", v, p.id>>},
                           reported |-> create_and_report_invalid_log_offence(p, successful)]]

\* Only the transaction's own entry counts here; process_event takes the last of its id.
validate_unsigned(tx) ==
  /\ is_validator(tx.by)
  /\ tx.kind = "check" =>
       At(ee.unchecked, tx.id, tx.counter) # {} /\ is_primary_for_block(tx.at, tx.by)
  /\ tx.kind # "check" => At(ee.pending, tx.id, tx.counter) # {}

Include(tx) ==
  /\ validate_unsigned(tx)
  /\ \/ tx.kind = "check" /\ submit_checkevent_result(tx)
     \/ tx.kind = "challenge" /\ challenge_event(tx)
     \/ tx.kind = "process" /\ process_event(tx)

\* The pool forgets what is no longer valid.
Expire(tx) == ~validate_unsigned(tx) /\ ee' = [ee EXCEPT !.pool = @ \ {tx}]

-----------------------------------------------------------------------------
\* Around the pallet.

NewBlock == ee.block < MaxEventBlock /\ ee' = [ee EXCEPT !.block = @ + 1]
NewSession == ee.session < MaxSessions /\ ee' = [ee EXCEPT !.session = @ + 1]

\* The bridge, which keeps the processed events, imports an event of a type that
\* moved to it while the pallet still held the event.
BridgeImports(id) ==
  ~processed_event_exists(id) /\ ee' = [ee EXCEPT !.processed = @ \cup {id},
                                                 !.applied[id] = @ + 1]

EventsLife ==
  \/ NewBlock
  \/ \E id \in EventIds : add_ethereum_log(id)
  \/ \E v \in DOMAIN ee.validated : offchain_worker(v)
  \/ \E tx \in ee.pool : Include(tx) \/ Expire(tx)

EventsAround ==
  \/ NewSession
  \/ \E id \in EventIds :
       \/ BridgeImports(id)
       \/ \E u, w \in Users, n \in 0..MaxIngress : signed_add_ethereum_log(u, w, n, id)
  \/ \E c \in Contracts : insert_nft_contract(c)
  \/ \E p \in ChallengePeriods : set_event_challenge_period(p)

EventsNext == EventsLife \/ EventsAround

EventsSpec == EventsInit /\ [][EventsNext]_ee

-----------------------------------------------------------------------------
\* An event is in one place at a time, and is applied at most once whoever imports
\* it: named and checked here, dropped and named again, or imported by the bridge
\* while it waits here.
AppliedOnce ==
  /\ \A id \in EventIds : ee.applied[id] <= 1 /\ (ee.applied[id] = 1 => id \in ee.processed)
  /\ \A i, j \in DOMAIN ee.pending : i # j => ee.pending[i].id # ee.pending[j].id
  /\ \A i \in DOMAIN ee.unchecked, j \in DOMAIN ee.pending :
       ee.unchecked[i].id # ee.pending[j].id

CONSTANT Honest    \* the validators whose Ethereum node tells the truth
Disagrees(p) ==
  \E h \in Honest : LET r == compute_result(Sees[h][p.id], p.id) IN r.result = Invalid \/ r.data # p.data

\* When every other validator has looked at an event before it is decided, and
\* no more lie than the quorum factor allows, then what is applied is what
\* happened on Ethereum and whoever is reported has lied.  An event that an
\* earlier challenge dropped is excepted: its old challenges count again.
JustlyDecided ==
  LET d == ee.last IN
  d # <<>> /\ d.waiting = {} /\ ~d.checked.carried =>
    /\ d.reported \cap Honest = {}
    /\ d.applied => ~Disagrees(d.checked)

\* "DO NOT add it to the processed set to allow the event to be processed again in
\* the future": an event that was dropped by a challenge, named again and
\* checked truthfully is applied.
ProcessedAgain ==
  LET d == ee.last IN
  d # <<>> /\ d.waiting = {} /\ d.checked.result = Ok /\ ~Disagrees(d.checked)
    /\ ee.applied[d.checked.id] = 0 => d.applied
===============================================================================
