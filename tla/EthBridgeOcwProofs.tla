-------------------------- MODULE EthBridgeOcwProofs --------------------------
(***************************************************************************)
(* Theorems about EthBridgeOcw, for every set of authors, every family of  *)
(* author lists, every delay, loss and order of calls: what the chain      *)
(* settles is what happened on Ethereum, and no honest author is reported. *)
(***************************************************************************)
EXTENDS EthBridgeOcw, EthBridgeRequestsProofs

(* The invariant *)

Sending == active # None /\ active[1].tx_data # None
Id == active[1].request.id
Tx == active[1].tx_data[1]

\* Nothing that is sent or corroborated from now on under a new request has this id.
Old(id) ==
    /\ id \in Nat /\ id < nextTxId
    /\ \A i \in 1..Len(queue) : queue[i].kind = "Send" => queue[i].id # id

\* What is certain about a Send for good: it ran, or it did not and every deadline
\* that was ever given out has passed.
Known(id, succeeded) ==
    IF succeeded THEN Executed(id) ELSE expired = setups /\ ~Executed(id)

\* The active Send has the last deadline, and its votes are certain.
AttemptInv ==
    Sending =>
        /\ Tx.expiry = setups /\ Tx.replay_attempt < setups
        /\ Tx.success_corroborations # <<>> => Known(Id, TRUE)
        /\ Tx.failure_corroborations # <<>> => Known(Id, FALSE)

\* Calls in the pool are well formed; a corroboration is of this or an earlier
\* attempt, and certain if it is of this one.
CorroborationInv(m) ==
    /\ m.succeeded \in BOOLEAN /\ m.hash_is_valid \in BOOLEAN /\ m.replay_attempt \in Nat
    /\ Old(m.id)
    /\ Sending /\ m.id = Id /\ m.instance = instance =>
          /\ m.replay_attempt <= Tx.replay_attempt
          /\ m.replay_attempt = Tx.replay_attempt => Known(m.id, m.succeeded)
CallInv(m) ==
    /\ m.author \in Accounts /\ m.instance \in Instances /\ m.instance <= instance
    /\ m.call \in {"add_confirmation", "add_eth_tx_hash", "add_corroboration"}
    /\ m.call = "add_eth_tx_hash" => m.hash \in EthTxHashes
    /\ m.call = "add_corroboration" => CorroborationInv(m)

\* No transaction has a later deadline than the last set-up, or the id of a request
\* that is to come.
SentTx == [calldata : [request : Request, expiry : Nat, confirmations : Seq(Signature)],
           instance : Instances, state : {"pending", "executed", "reverted"}, block : Nat]
SentFor(id) == \E h \in 1..Len(ethTxs) : ethTxs[h].calldata.request.id = id
TxsInv ==
    /\ ethTxs \in Seq(SentTx) /\ ethBlock \in Nat
    /\ \A h \in 1..Len(ethTxs) : ethTxs[h].calldata.expiry <= setups
    /\ \A id \in Nat : SentFor(id) => Old(id)

ClockInv == setups <= MaxSetups /\ expired \in Nat /\ expired <= setups

OcwInv == ClockInv /\ AttemptInv /\ TxsInv /\ \A m \in pool : CallInv(m)

\* What the first instance settled is certain, and stays so: no transaction for a
\* Send that failed can run any more.
CertainOutcome(id) ==
    /\ settled[id].tx_succeeded <=> Executed(id)
    /\ ~settled[id].tx_succeeded =>
          \A h \in 1..Len(ethTxs) :
              ethTxs[h].calldata.request.id = id => ethTxs[h].calldata.expiry <= expired
SettledInv ==
    /\ instance \in Nat /\ instance >= 1
    /\ instance = 1 => \A id \in DOMAIN settled : CertainOutcome(id)
-------------------------------------------------------------------------------
(* What a step of the pallet does to the attempt at the active Send *)

\* A Send is set up: a new deadline and no votes.
Started(id, replay) ==
    /\ Sending' /\ Id' = id /\ setups' = setups + 1 /\ setups < MaxSetups
    /\ Tx'.expiry = setups + 1 /\ Tx'.replay_attempt = replay
    /\ Tx'.success_corroborations = <<>> /\ Tx'.failure_corroborations = <<>>

\* No Send is active afterwards.
Dropped == ~Sending' /\ setups' = setups

KeepsAttempt ==
    /\ Sending' => /\ Sending /\ Id' = Id
                   /\ Tx'.expiry = Tx.expiry /\ Tx'.replay_attempt = Tx.replay_attempt
                   /\ Tx'.success_corroborations = Tx.success_corroborations
                   /\ Tx'.failure_corroborations = Tx.failure_corroborations
    /\ setups' = setups /\ instance' = instance

\* A corroboration is recorded.
Votes(succeeded) ==
    /\ Sending /\ Sending' /\ Id' = Id
    /\ Tx'.expiry = Tx.expiry /\ Tx'.replay_attempt = Tx.replay_attempt
    /\ ~succeeded => Tx'.success_corroborations = Tx.success_corroborations
    /\ succeeded => Tx'.failure_corroborations = Tx.failure_corroborations
    /\ setups' = setups /\ instance' = instance

\* A set-up starts a new attempt of the request at hand, in the next instance, or
\* the first one of a request that nobody has acted on.
NewAttempt ==
    \E id, replay \in Nat :
        /\ Started(id, replay) /\ instance' >= instance
        /\ \/ replay = 0 /\ instance' > instance
           \/ replay = 0 /\ ~Old(id)
           \/ Sending /\ id = Id /\ instance' = instance /\ replay = Tx.replay_attempt + 1

Moves == KeepsAttempt \/ (Dropped /\ instance' >= instance) \/ NewAttempt

LEMMA StartSend ==
    ASSUME NEW r, NEW replay, NEW inst, set_up_active_tx(r, replay, inst)
    PROVE  Started(r.id, replay)
<1> DEFINE tx == [sender |-> validators[advance_primary(primary, Len(validators)) + 1],
                  expiry |-> setups + 1,
                  eth_tx_hash |-> ZeroHash,
                  success_corroborations |-> <<>>,
                  failure_corroborations |-> <<>>,
                  valid_tx_hash_corroborations |-> <<>>,
                  invalid_tx_hash_corroborations |-> <<>>,
                  replay_attempt |-> replay]
           a == [request |-> r, msg_hash |-> msg_hash(r, setups + 1, inst),
                 confirmations |-> <<>>, tx_data |-> Some(tx)]
<1>1. active' = Some(a) /\ setups' = setups + 1 /\ setups < MaxSetups
  BY DEF set_up_active_tx
<1>2. /\ tx.expiry = setups + 1 /\ tx.replay_attempt = replay
      /\ tx.success_corroborations = <<>> /\ tx.failure_corroborations = <<>>
  OBVIOUS
<1>3. a.request = r /\ a.tx_data = Some(tx)
  OBVIOUS
<1> HIDE DEF tx, a
<1>4. /\ Some(a)[1] = a /\ Some(a) # None /\ Some(tx)[1] = tx /\ Some(tx) # None
  BY SomeProperties, Zenon
<1> QED BY <1>1, <1>2, <1>3, <1>4 DEF Started, Sending, Id, Tx

LEMMA StartRequest ==
    ASSUME NEW r, set_up(r)
    PROVE  (r.kind = "Send" /\ Started(r.id, 0)) \/ Dropped
<1>1. CASE r.kind = "Send"
  BY <1>1, StartSend DEF set_up
<1>2. CASE r.kind # "Send"
  <2> DEFINE a == [request |-> r, msg_hash |-> msg_hash(r, 0, instance),
                   confirmations |-> <<>>, tx_data |-> None]
  <2>1. active' = Some(a) /\ setups' = setups
    BY <1>2 DEF set_up, set_up_active_lower_proof
  <2>2. a.tx_data = None
    OBVIOUS
  <2> HIDE DEF a
  <2>3. Some(a)[1] = a
    BY SomeProperties, Zenon
  <2> QED BY <2>1, <2>2, <2>3 DEF Dropped, Sending
<1> QED BY <1>1, <1>2

\* process_next_request
LEMMA StartNext ==
    ASSUME TypeOK, NEW result, process_next_request(result)
    PROVE  \/ Dropped
           \/ \E k \in 1..Len(queue) : queue[k].kind = "Send" /\ Started(queue[k].id, 0)
<1>1. PICK k \in 1..(Len(queue) + 1) :
        IF k > Len(queue)
        THEN active' = None /\ UNCHANGED <<setups, primary>>
        ELSE can_set_up(queue[k]) /\ set_up(queue[k])
  BY DEF process_next_request
<1>2. CASE k > Len(queue)
  BY <1>1, <1>2 DEF Dropped, Sending
<1>3. CASE ~(k > Len(queue))
  <2>1. Len(queue) \in Nat
    BY DEF TypeOK
  <2>2. k \in 1..Len(queue)
    BY <1>3, <2>1
  <2>3. set_up(queue[k])
    BY <1>1, <1>3
  <2> QED BY <2>2, <2>3, StartRequest
<1> QED BY <1>2, <1>3

\* The queue holds requests that nobody has acted on.
LEMMA NextMoves ==
    ASSUME TypeOK, NEW result, process_next_request(result), instance' = instance
    PROVE  Moves
<1>0. instance \in Instances /\ instance \in Nat
  BY OcwLimitsAssumption DEF TypeOK
<1>1. CASE Dropped
  BY <1>0, <1>1 DEF Moves
<1>2. ASSUME NEW k \in 1..Len(queue), queue[k].kind = "Send", Started(queue[k].id, 0)
      PROVE  Moves
  <2>1. queue[k].id \in Nat
    <3>1. queue[k] \in Request
      BY ElementOfSeq DEF TypeOK
    <3> QED BY <3>1 DEF Request
  <2>2. ~Old(queue[k].id)
    BY <1>2 DEF Old
  <2> QED BY <1>0, <1>2, <2>1, <2>2 DEF Moves, NewAttempt
<1> QED BY <1>1, <1>2, StartNext

LEMMA SameInstance ==
    ASSUME TypeOK
    PROVE  instance \in Nat /\ instance >= instance
BY OcwLimitsAssumption DEF TypeOK

\* publish and generate_lower_proof
LEMMA AcceptMoves ==
    ASSUME TypeOK, NEW r \in Request, add_new_request(r), r.kind = "Send" => r.id = nextTxId
    PROVE  Moves
<1>0. instance' = instance /\ r.id \in Nat /\ nextTxId \in Nat
  BY DEF add_new_request, Request, TypeOK
<1>1. CASE active # None
  <2>1. UNCHANGED <<active, setups>>
    BY <1>1 DEF add_new_request
  <2> QED BY <1>0, <2>1 DEF Moves, KeepsAttempt, Sending, Id, Tx
<1>2. CASE active = None
  <2>1. set_up(r)
    BY <1>2 DEF add_new_request
  <2>2. CASE Dropped
    BY <1>0, <2>2, SameInstance DEF Moves
  <2>3. CASE r.kind = "Send" /\ Started(r.id, 0)
    <3>1. ~Old(r.id)
      BY <1>0, <2>3 DEF Old
    <3> QED BY <1>0, <2>3, <3>1, SameInstance DEF Moves, NewAttempt
  <2> QED BY <2>1, <2>2, <2>3, StartRequest
<1> QED BY <1>1, <1>2

LEMMA ConfirmationMoves ==
    ASSUME TypeOK, NEW id, NEW c, NEW author, add_confirmation(id, c, author)
    PROVE  Moves
<1> DEFINE a == [active[1] EXCEPT !.confirmations = Append(@, c)]
<1>0. instance' = instance /\ active # None
  BY DEF add_confirmation, confirmation_counts, is_active_request
<1>1. \/ process_next_request(Notify(a.request, TRUE, "proof"))
      \/ active' = Some(a) /\ setups' = setups
  BY Zenon DEF add_confirmation
<1>2. CASE process_next_request(Notify(a.request, TRUE, "proof"))
  <2> HIDE DEF a
  <2> QED BY <1>0, <1>2, NextMoves, Zenon
<1>3. CASE active' = Some(a) /\ setups' = setups
  <2>1. active[1] \in ActiveRequestData
    BY <1>0, ActiveFacts
  <2>2. a.request = active[1].request /\ a.tx_data = active[1].tx_data
    BY <2>1 DEF ActiveRequestData
  <2> HIDE DEF a
  <2>3. active'[1] = a
    BY <1>3, SomeProperties, Zenon
  <2>4. Id' = Id /\ Tx' = Tx /\ (Sending' => Sending)
    BY <1>0, <2>2, <2>3 DEF Id, Tx, Sending
  <2> QED BY <1>0, <1>3, <2>4 DEF Moves, KeepsAttempt
<1> QED BY <1>1, <1>2, <1>3, Zenon

LEMMA HashMoves ==
    ASSUME TypeOK, NEW id, NEW hash \in EthTxHashes, NEW author,
           add_eth_tx_hash(id, hash, author)
    PROVE  Moves
<1> DEFINE t == [active[1].tx_data[1] EXCEPT !.eth_tx_hash = hash]
<1>1. /\ active # None /\ active[1].tx_data # None /\ active' = with_tx_data(active[1], t)
      /\ UNCHANGED <<instance, setups>>
  BY DEF add_eth_tx_hash, eth_tx_hash_counts, is_active_request
<1>2. active[1].tx_data[1] \in ActiveEthTransaction
  BY <1>1, TxFacts
<1>3. /\ t \in ActiveEthTransaction
      /\ t.expiry = Tx.expiry /\ t.replay_attempt = Tx.replay_attempt
      /\ t.success_corroborations = Tx.success_corroborations
      /\ t.failure_corroborations = Tx.failure_corroborations
  BY <1>2, Zenon DEF ActiveEthTransaction, Tx
<1> HIDE DEF t
<1>4. Id' = Id /\ Tx' = t /\ Sending
  BY <1>1, <1>3, WithTxData, Zenon DEF Id, Tx, Sending
<1> QED BY <1>1, <1>3, <1>4 DEF Moves, KeepsAttempt

LEMMA CorroborationMoves ==
    ASSUME TypeOK, NEW author \in Accounts, NEW id, NEW succeeded \in BOOLEAN,
           NEW valid \in BOOLEAN, NEW replay_attempt,
           add_corroboration(id, succeeded, valid, author, replay_attempt)
    PROVE  Moves \/ Votes(succeeded)
<1> DEFINE r == active[1].request
           t == Recorded(active[1].tx_data[1], succeeded, valid, author)
           matching == IF succeeded THEN t.success_corroborations
                                    ELSE t.failure_corroborations
<1>1. active # None /\ active[1].tx_data # None /\ Sending
  BY DEF add_corroboration, corroboration_counts, is_active_request, Sending
<1>2. /\ IF has_enough_corroborations(Len(matching))
         THEN finalize_state(r, t, succeeded)
         ELSE /\ active' = with_tx_data(active[1], t)
              /\ UNCHANGED <<queue, settled, offenders, setups, primary, notified>>
      /\ instance' = instance
  BY DEF add_corroboration, Recorded
<1>3. active[1].tx_data[1] \in ActiveEthTransaction
  BY <1>1, TxFacts
<1>4. /\ t \in ActiveEthTransaction
      /\ t.expiry = Tx.expiry /\ t.replay_attempt = Tx.replay_attempt
      /\ ~succeeded => t.success_corroborations = Tx.success_corroborations
      /\ succeeded => t.failure_corroborations = Tx.failure_corroborations
  <2>1. t \in ActiveEthTransaction
    BY <1>3, RecordedProperties
  <2>2. t.expiry = Tx.expiry /\ t.replay_attempt = Tx.replay_attempt
    BY <1>3 DEF Recorded, Tx, ActiveEthTransaction
  <2>3. ~succeeded => t.success_corroborations = Tx.success_corroborations
    BY <1>3 DEF Recorded, Tx, ActiveEthTransaction
  <2>4. succeeded => t.failure_corroborations = Tx.failure_corroborations
    BY <1>3 DEF Recorded, Tx, ActiveEthTransaction
  <2> QED BY <2>1, <2>2, <2>3, <2>4
<1> HIDE DEF t
<1>5. CASE active' = with_tx_data(active[1], t) /\ setups' = setups
  <2>1. Id' = Id /\ Tx' = t
    BY <1>1, <1>4, <1>5, WithTxData, Zenon DEF Id, Tx
  <2>2. Sending'
    <3>1. DOMAIN active' = {1} /\ DOMAIN active'[1].tx_data = {1}
      BY <1>1, <1>4, <1>5, WithTxData, Zenon
    <3> QED BY <3>1 DEF Sending, None
  <2> QED BY <1>1, <1>2, <1>4, <1>5, <2>1, <2>2 DEF Votes
<1>6. CASE set_up_active_tx(r, t.replay_attempt + 1, instance)
  <2>1. Started(r.id, t.replay_attempt + 1)
    BY <1>6, StartSend
  <2>2. Id \in Nat /\ r.id = Id
    BY <1>1, ActiveFacts DEF ActiveRequestData, Request, Id
  <2>3. t.replay_attempt \in Nat
    BY <1>4 DEF ActiveEthTransaction
  <2> HIDE DEF r
  <2> QED BY <1>1, <1>2, <1>4, <2>1, <2>2, <2>3, SameInstance DEF Moves, NewAttempt
<1>7. CASE complete_transaction(r, t, succeeded)
  <2>1. process_next_request(Notify(r, succeeded, "settled"))
    BY <1>7 DEF complete_transaction
  <2> QED BY <1>2, <2>1, NextMoves
<1> QED BY <1>2, <1>5, <1>6, <1>7 DEF finalize_state

LEMMA RemoveMoves ==
    ASSUME TypeOK, RemoveActiveRequest
    PROVE  Moves
BY NextMoves, Zenon DEF RemoveActiveRequest

LEMMA InstanceMoves ==
    ASSUME TypeOK, NEW i \in Instances, i > instance, SetEthBridgeInstance(i)
    PROVE  Moves
<1>0. /\ instance' = i /\ i \in Nat /\ instance \in Nat
      /\ instance' > instance /\ instance' >= instance
  BY OcwLimitsAssumption DEF SetEthBridgeInstance, TypeOK
<1>1. CASE active # None /\ active[1].request.kind = "Send"
  <2>1. Started(Id, 0)
    BY <1>1, StartSend DEF SetEthBridgeInstance, Id
  <2>2. Id \in Nat
    BY <1>1, ActiveFacts DEF ActiveRequestData, Request, Id
  <2> QED BY <1>0, <2>1, <2>2 DEF Moves, NewAttempt
<1>2. CASE ~(active # None /\ active[1].request.kind = "Send")
  <2>1. UNCHANGED <<active, setups>>
    BY <1>2 DEF SetEthBridgeInstance
  <2>2. ~Sending
    BY <1>2, TxFacts DEF Sending
  <2> QED BY <1>0, <2>1, <2>2 DEF Moves, Dropped, Sending
<1> QED BY <1>1, <1>2

LEMMA SameMoves ==
    ASSUME UNCHANGED <<active, setups, instance>>
    PROVE  Moves
BY DEF Moves, KeepsAttempt, Sending, Id, Tx
-------------------------------------------------------------------------------
(* A step of the pallet keeps the invariant *)

LEMMA OldStays ==
    ASSUME TypeOK, TypeOK', [Next]_vars, NEW id, Old(id)
    PROVE  Old(id)'
<1>0. /\ nextTxId \in Nat /\ nextTxId' \in Nat /\ id \in Nat /\ id < nextTxId
      /\ Len(queue) \in Nat /\ Len(queue') \in Nat /\ queue \in Seq(Request)
  BY DEF TypeOK, Old
<1>1. nextTxId' >= nextTxId /\ \A r \in Request : accepted' = Append(accepted, r) =>
                                   (r.kind = "Send" => r.id = nextTxId)
  <2>1. CASE accepted' = accepted /\ nextTxId' >= nextTxId
    <3>1. \A r \in Request : accepted' # Append(accepted, r)
      <4>1. Len(accepted) \in Nat /\ accepted \in Seq(Request)
        BY DEF TypeOK
      <4>2. \A r \in Request : Len(Append(accepted, r)) = Len(accepted) + 1
        BY <4>1, AppendProperties
      <4> QED BY <2>1, <4>1, <4>2
    <3> QED BY <2>1, <3>1
  <2>2. ASSUME NEW r \in Request, GrowsIds(r), NEW q \in Request,
               accepted' = Append(accepted, q)
        PROVE  q = r
    <3>1. accepted \in Seq(Request) /\ Append(accepted, q) = Append(accepted, r)
      BY <2>2 DEF TypeOK, GrowsIds
    <3>2. /\ Append(accepted, q)[Len(accepted) + 1] = q
          /\ Append(accepted, r)[Len(accepted) + 1] = r
      BY <3>1, AppendProperties
    <3> QED BY <3>1, <3>2
  <2> QED BY <2>1, <2>2, StepIds DEF GrowsIds
<1>2. ASSUME NEW i \in 1..Len(queue') PROVE queue'[i].kind = "Send" => queue'[i].id # id
  <2>1. CASE queue' = queue
    BY <1>2, <2>1 DEF Old
  <2>2. ASSUME NEW r \in Request, Accepts(r), queue' = Append(queue, r)
        PROVE  queue'[i].kind = "Send" => queue'[i].id # id
    <3>1. r.kind = "Send" => r.id = nextTxId
      BY <1>1, <2>2 DEF Accepts
    <3>2. /\ Len(queue') = Len(queue) + 1 /\ queue'[Len(queue) + 1] = r
          /\ \A j \in 1..Len(queue) : queue'[j] = queue[j]
      BY <1>0, <2>2, AppendProperties
    <3>3. CASE i = Len(queue) + 1
      BY <1>0, <3>1, <3>2, <3>3
    <3>4. CASE i # Len(queue) + 1
      <4>1. i \in 1..Len(queue)
        BY <1>0, <1>2, <3>2, <3>4
      <4> QED BY <3>2, <4>1 DEF Old
    <3> QED BY <3>3, <3>4
  <2>3. ASSUME NEW result \in Notification, Answers(result)
        PROVE  queue'[i].kind = "Send" => queue'[i].id # id
    <3>1. PICK n \in 0..Len(queue) : NextTaken(result, n)
      BY <2>3 DEF Answers
    <3>2. /\ Len(active') + Len(queue') + n = Len(queue)
          /\ queue'[i] = queue[n + Len(active') + i]
      BY <1>2, <3>1 DEF NextTaken
    <3>3. Len(active') \in Nat
      BY DEF TypeOK
    <3>4. n + Len(active') + i \in 1..Len(queue)
      BY <1>0, <1>2, <3>1, <3>2, <3>3
    <3> QED BY <3>2, <3>4 DEF Old
  <2> QED BY <2>1, <2>2, <2>3, StepShape DEF Shape, KeepsOrder, Accepts
<1>3. id < nextTxId'
  BY <1>0, <1>1
<1> QED BY <1>0, <1>2, <1>3 DEF Old

\* What the workers know of Ethereum when nothing moves there.
LEMMA SameKnown ==
    ASSUME NEW id, NEW succeeded, UNCHANGED <<ethTxs, expired, setups, instance>>
    PROVE  Known(id, succeeded) => Known(id, succeeded)'
BY DEF Known, Executed

LEMMA AttemptFacts ==
    ASSUME TypeOK, Sending
    PROVE  /\ Tx.replay_attempt \in Nat /\ Tx.expiry \in Nat /\ Id \in Nat
           /\ Tx \in ActiveEthTransaction
<1>1. Tx \in ActiveEthTransaction
  BY TxFacts DEF Sending, Tx
<1>2. Id \in Nat
  BY ActiveFacts DEF Sending, Id, ActiveRequestData, Request
<1> QED BY <1>1, <1>2 DEF ActiveEthTransaction

\* What a step of the pallet may do for the invariant to hold after it.
ChainMoves == Moves \/ \E succeeded \in BOOLEAN : Votes(succeeded) /\ Known(Id, succeeded)

LEMMA IdleAttempt ==
    ASSUME ~Sending'
    PROVE  AttemptInv'
BY DEF AttemptInv

LEMMA ChainAttempt ==
    ASSUME TypeOK, OcwInv, UNCHANGED <<ethTxs, expired>>, ChainMoves
    PROVE  ClockInv' /\ AttemptInv' /\ setups' >= setups
<1>0. /\ setups \in Nat /\ MaxSetups \in Nat /\ expired \in Nat
      /\ expired <= setups /\ setups <= MaxSetups
  BY LimitsAssumption DEF TypeOK, OcwInv, ClockInv
<1>1. CASE KeepsAttempt
  <2>1. setups' = setups /\ instance' = instance /\ ClockInv'
    BY <1>0, <1>1 DEF KeepsAttempt, ClockInv
  <2>2. ASSUME Sending' PROVE AttemptInv'
    <3>1. /\ Sending /\ Id' = Id
          /\ Tx'.expiry = Tx.expiry /\ Tx'.replay_attempt = Tx.replay_attempt
          /\ Tx'.success_corroborations = Tx.success_corroborations
          /\ Tx'.failure_corroborations = Tx.failure_corroborations
      BY <1>1, <2>2 DEF KeepsAttempt
    <3>2. /\ Tx.expiry = setups /\ Tx.replay_attempt < setups
          /\ Tx.success_corroborations # <<>> => Known(Id, TRUE)
          /\ Tx.failure_corroborations # <<>> => Known(Id, FALSE)
      BY <3>1, Zenon DEF OcwInv, AttemptInv
    <3>3. ASSUME NEW s \in BOOLEAN, Known(Id, s) PROVE Known(Id, s)'
      BY <2>1, <3>1, <3>3 DEF Known, Executed
    <3> QED BY <2>1, <3>1, <3>2, <3>3, Zenon DEF AttemptInv
  <2>3. AttemptInv'
    BY <2>2, IdleAttempt
  <2> QED BY <1>0, <2>1, <2>3
<1>2. CASE Dropped
  <2>1. AttemptInv' /\ setups' = setups
    BY <1>2, IdleAttempt DEF Dropped
  <2> QED BY <1>0, <2>1 DEF ClockInv
<1>3. CASE NewAttempt
  <2>1. PICK id, replay \in Nat :
          /\ Started(id, replay)
          /\ replay = 0 \/ (Sending /\ replay = Tx.replay_attempt + 1)
    BY <1>3 DEF NewAttempt
  <2>2. /\ setups' = setups + 1 /\ setups < MaxSetups
        /\ Tx'.expiry = setups + 1 /\ Tx'.replay_attempt = replay
        /\ Tx'.success_corroborations = <<>> /\ Tx'.failure_corroborations = <<>>
    BY <2>1 DEF Started
  <2>3. ClockInv' /\ setups' >= setups
    BY <1>0, <2>2 DEF ClockInv
  <2>4. replay < setups + 1
    <3>1. CASE Sending /\ replay = Tx.replay_attempt + 1
      <4>1. Tx.replay_attempt < setups /\ Tx.replay_attempt \in Nat
        BY <3>1, AttemptFacts DEF OcwInv, AttemptInv
      <4> QED BY <1>0, <3>1, <4>1
    <3> QED BY <1>0, <2>1, <3>1
  <2> QED BY <2>2, <2>3, <2>4 DEF AttemptInv
<1>4. ASSUME NEW succeeded \in BOOLEAN, Votes(succeeded), Known(Id, succeeded)
      PROVE  ClockInv' /\ AttemptInv' /\ setups' >= setups
  <2>1. /\ Sending /\ Id' = Id /\ setups' = setups /\ instance' = instance
        /\ Tx'.expiry = Tx.expiry /\ Tx'.replay_attempt = Tx.replay_attempt
        /\ ~succeeded => Tx'.success_corroborations = Tx.success_corroborations
        /\ succeeded => Tx'.failure_corroborations = Tx.failure_corroborations
    BY <1>4 DEF Votes
  <2>2. /\ Tx.expiry = setups /\ Tx.replay_attempt < setups
        /\ Tx.success_corroborations # <<>> => Known(Id, TRUE)
        /\ Tx.failure_corroborations # <<>> => Known(Id, FALSE)
    BY <2>1, Zenon DEF OcwInv, AttemptInv
  <2>3. ASSUME NEW s \in BOOLEAN, Known(Id, s) PROVE Known(Id, s)'
    BY <2>1, <2>3 DEF Known, Executed
  <2>4. ClockInv' /\ setups' >= setups
    BY <1>0, <2>1 DEF ClockInv
  <2>5. CASE succeeded
    <3>1. Known(Id, TRUE)'
      BY <1>4, <2>3, <2>5, Zenon
    <3> QED BY <2>1, <2>2, <2>3, <2>4, <2>5, <3>1, Zenon DEF AttemptInv
  <2>6. CASE ~succeeded
    <3>1. Known(Id, FALSE)'
      BY <1>4, <2>3, <2>6, Zenon
    <3> QED BY <2>1, <2>2, <2>3, <2>4, <2>6, <3>1, Zenon DEF AttemptInv
  <2> QED BY <2>5, <2>6
<1> QED BY <1>1, <1>2, <1>3, <1>4 DEF ChainMoves, Moves

\* Calls that were in the pool before: those of an earlier attempt stay so.
LEMMA ChainCall ==
    ASSUME TypeOK, TypeOK', OcwInv, [Next]_vars, UNCHANGED <<ethTxs, expired>>, ChainMoves,
           NEW m, CallInv(m)
    PROVE  CallInv(m)'
<1>0. instance \in Nat /\ instance' \in Nat /\ instance' >= instance
  <2>1. instance \in Nat /\ instance' \in Nat
    BY OcwLimitsAssumption DEF TypeOK
  <2> QED BY <2>1 DEF ChainMoves, Moves, KeepsAttempt, NewAttempt, Votes
<1>1. /\ m.author \in Accounts /\ m.instance \in Instances /\ m.instance <= instance
      /\ m.call \in {"add_confirmation", "add_eth_tx_hash", "add_corroboration"}
      /\ m.call = "add_eth_tx_hash" => m.hash \in EthTxHashes
  BY DEF CallInv
<1>2. m.instance \in Nat /\ m.instance <= instance'
  <2>1. m.instance \in Nat
    BY <1>1, OcwLimitsAssumption, Zenon
  <2> QED BY <1>0, <1>1, <2>1
<1>3. ASSUME CorroborationInv(m) PROVE CorroborationInv(m)'
  <2>1. /\ m.succeeded \in BOOLEAN /\ m.hash_is_valid \in BOOLEAN /\ m.replay_attempt \in Nat
        /\ Old(m.id)
        /\ Sending /\ m.id = Id /\ m.instance = instance =>
              /\ m.replay_attempt <= Tx.replay_attempt
              /\ m.replay_attempt = Tx.replay_attempt => Known(m.id, m.succeeded)
    BY <1>3 DEF CorroborationInv
  <2>2. Old(m.id)'
    BY <2>1, OldStays
  <2>3. SUFFICES ASSUME Sending', m.id = Id', m.instance = instance'
                 PROVE  /\ m.replay_attempt <= Tx'.replay_attempt
                        /\ m.replay_attempt = Tx'.replay_attempt => Known(m.id, m.succeeded)'
    BY <2>1, <2>2 DEF CorroborationInv
  <2>4. m.instance = instance /\ instance' = instance
    BY <1>0, <1>1, <1>2, <2>3
  <2>5. ASSUME Sending, Id' = Id, Tx'.replay_attempt = Tx.replay_attempt, setups' = setups
        PROVE  /\ m.replay_attempt <= Tx'.replay_attempt
               /\ m.replay_attempt = Tx'.replay_attempt => Known(m.id, m.succeeded)'
    <3>1. Known(m.id, m.succeeded) => Known(m.id, m.succeeded)'
      BY <2>4, <2>5, SameKnown
    <3> QED BY <2>1, <2>3, <2>4, <2>5, <3>1
  <2>6. CASE KeepsAttempt
    BY <2>3, <2>5, <2>6 DEF KeepsAttempt
  <2>7. CASE \E s \in BOOLEAN : Votes(s)
    BY <2>5, <2>7 DEF Votes
  <2>8. CASE NewAttempt
    <3>1. PICK id, replay \in Nat :
            /\ Started(id, replay)
            /\ \/ replay = 0 /\ instance' > instance
               \/ replay = 0 /\ ~Old(id)
               \/ Sending /\ id = Id /\ instance' = instance /\ replay = Tx.replay_attempt + 1
      BY <2>8 DEF NewAttempt
    <3>2. Id' = id /\ Tx'.replay_attempt = replay
      BY <3>1 DEF Started
    <3>3. Sending /\ m.id = Id /\ replay = Tx.replay_attempt + 1
      BY <1>0, <2>1, <2>3, <2>4, <3>1, <3>2
    <3>4. m.replay_attempt <= Tx.replay_attempt /\ Tx.replay_attempt \in Nat
      BY <2>1, <2>4, <3>3, AttemptFacts
    <3> QED BY <2>1, <3>2, <3>3, <3>4
  <2> QED BY <2>3, <2>6, <2>7, <2>8 DEF ChainMoves, Moves, Dropped
<1> QED BY <1>1, <1>2, <1>3 DEF CallInv

LEMMA ChainKeeps ==
    ASSUME TypeOK, TypeOK', OcwInv, [Next]_vars, pool' \subseteq pool,
           UNCHANGED <<ethTxs, ethBlock, expired>>, ChainMoves
    PROVE  OcwInv'
<1>1. ClockInv' /\ AttemptInv' /\ setups' >= setups
  BY ChainAttempt
<1>2. \A m \in pool' : CallInv(m)'
  BY ChainCall DEF OcwInv
<1>3. TxsInv'
  <2>1. /\ ethTxs' \in Seq(SentTx) /\ ethBlock' \in Nat
    BY DEF OcwInv, TxsInv
  <2>2. ASSUME NEW h \in 1..Len(ethTxs') PROVE ethTxs'[h].calldata.expiry <= setups'
    <3>1. h \in 1..Len(ethTxs) /\ ethTxs'[h] = ethTxs[h] /\ ethTxs[h].calldata.expiry <= setups
      BY <2>2 DEF OcwInv, TxsInv
    <3>2. ethTxs[h].calldata.expiry \in Nat
      <4>1. ethTxs[h] \in SentTx
        BY <3>1, ElementOfSeq DEF OcwInv, TxsInv
      <4> QED BY <4>1 DEF SentTx
    <3>3. setups \in Nat /\ setups' \in Nat
      BY DEF TypeOK
    <3> QED BY <1>1, <3>1, <3>2, <3>3
  <2>3. ASSUME NEW id \in Nat, SentFor(id)' PROVE Old(id)'
    <3>1. SentFor(id)
      BY <2>3 DEF SentFor
    <3> QED BY <3>1, OldStays DEF OcwInv, TxsInv
  <2> QED BY <2>1, <2>2, <2>3 DEF TxsInv
<1> QED BY <1>1, <1>2, <1>3 DEF OcwInv
-------------------------------------------------------------------------------
(* The steps of the pallet in the composed system are steps it can take *)

LEMMA ApplyIsNext ==
    ASSUME TypeOK, OcwInv, NEW m, CallInv(m), Apply(m)
    PROVE  Next
<1>0. m.author \in Accounts
  BY DEF CallInv
<1>1. ASSUME is_active_request(m.id)
      PROVE  /\ m.id \in {active[i].request.id : i \in DOMAIN active}
             /\ 1 \in DOMAIN active
  BY <1>1, ActiveFacts DEF is_active_request
<1>2. CASE m.call = "add_confirmation" /\ add_confirmation(m.id, m.confirmation, m.author)
  <2>1. /\ is_active_request(m.id)
        /\ m.confirmation = [signer |-> m.author, msg |-> active[1].msg_hash]
    BY <1>2 DEF add_confirmation, confirmation_counts
  <2>2. AuthorCall(m.author)
    BY <1>1, <1>2, <2>1, Zenon DEF AuthorCall
  <2> QED BY <1>0, <2>2 DEF Next
<1>3. CASE m.call = "add_eth_tx_hash" /\ add_eth_tx_hash(m.id, m.hash, m.author)
  <2>1. is_active_request(m.id) /\ m.hash \in EthTxHashes
    BY <1>3 DEF add_eth_tx_hash, eth_tx_hash_counts, CallInv
  <2>2. AuthorCall(m.author)
    BY <1>1, <1>3, <2>1 DEF AuthorCall
  <2> QED BY <1>0, <2>2 DEF Next
<1>4. CASE /\ m.call = "add_corroboration"
           /\ add_corroboration(m.id, m.succeeded, m.hash_is_valid, m.author, m.replay_attempt)
  <2>1. /\ is_active_request(m.id) /\ Sending /\ m.replay_attempt = Tx.replay_attempt
        /\ m.succeeded \in BOOLEAN /\ m.hash_is_valid \in BOOLEAN
    BY <1>4 DEF add_corroboration, corroboration_counts, is_active_request, Sending, Tx,
                CallInv, CorroborationInv
  <2>2. m.replay_attempt \in 0..MaxSetups
    <3>1. /\ Tx.replay_attempt \in Nat /\ Tx.replay_attempt < setups /\ setups <= MaxSetups
          /\ setups \in Nat /\ MaxSetups \in Nat
      BY <2>1, AttemptFacts, LimitsAssumption DEF OcwInv, AttemptInv, ClockInv, TypeOK
    <3> QED BY <2>1, <3>1
  <2>3. AuthorCall(m.author)
    BY <1>1, <1>4, <2>1, <2>2, Zenon DEF AuthorCall
  <2> QED BY <1>0, <2>3 DEF Next
<1> QED BY <1>2, <1>3, <1>4 DEF Apply

LEMMA CallerIsNext ==
    ASSUME Caller PROVE Next
BY DEF Caller, Next

LEMMA OperatorIsNext ==
    ASSUME Operator PROVE Next
BY DEF Operator, Next

LEMMA SessionIsNext ==
    ASSUME Session PROVE Next
BY DEF Session, Next

LEMMA StepIsNext ==
    ASSUME TypeOK, OcwInv, [OcwNext]_allVars
    PROVE  [Next]_vars
<1>1. ASSUME NEW author \in Accounts, Ocw(author) PROVE UNCHANGED vars
  BY <1>1, Zenon DEF Ocw, ocw_confirm, ocw_send, ocw_corroborate
<1>2. ASSUME NEW m \in pool, Include(m) PROVE [Next]_vars
  <2>1. CallInv(m)
    BY DEF OcwInv
  <2> QED BY <1>2, <2>1, ApplyIsNext DEF Include
<1>3. ASSUME NEW m \in pool, Lose(m) PROVE UNCHANGED vars
  BY <1>3 DEF Lose
<1>4. CASE Finalise \/ Expire \/ (\E lock \in locks : ExpireLock(lock))
           \/ \E h \in DOMAIN ethTxs : Mine(h)
  BY <1>4, Zenon DEF Finalise, Expire, ExpireLock, Mine
<1>5. CASE UNCHANGED allVars
  BY <1>5 DEF allVars
<1> QED BY <1>1, <1>2, <1>3, <1>4, <1>5, CallerIsNext, OperatorIsNext, SessionIsNext
        DEF OcwNext
-------------------------------------------------------------------------------
(* What a step of the pallet settles and whom it reports *)

ChainEffect ==
    /\ ChainMoves
    /\ \/ settled' = settled
       \/ instance' = instance /\ \E s \in BOOLEAN : Settles(s) /\ Known(Id, s)
    /\ offenders' = offenders

\* complete_transaction reports the losing side, and there is none.
LEMMA NobodyLoses ==
    ASSUME TypeOK, AttemptInv, NEW author \in Accounts, NEW id, NEW succeeded \in BOOLEAN,
           NEW valid \in BOOLEAN, NEW replay_attempt, Known(Id, succeeded),
           add_corroboration(id, succeeded, valid, author, replay_attempt)
    PROVE  offenders' = offenders
<1> DEFINE r == active[1].request
           t == Recorded(active[1].tx_data[1], succeeded, valid, author)
           matching == IF succeeded THEN t.success_corroborations
                                    ELSE t.failure_corroborations
           losers == IF succeeded THEN t.failure_corroborations
                                  ELSE t.success_corroborations
<1>1. Sending
  BY DEF add_corroboration, corroboration_counts, is_active_request, Sending
<1>2. IF has_enough_corroborations(Len(matching))
      THEN finalize_state(r, t, succeeded)
      ELSE /\ active' = with_tx_data(active[1], t)
           /\ UNCHANGED <<queue, settled, offenders, setups, primary, notified>>
  BY DEF add_corroboration, Recorded
<1>3. /\ ~succeeded => t.success_corroborations = Tx.success_corroborations
      /\ succeeded => t.failure_corroborations = Tx.failure_corroborations
  BY <1>1, AttemptFacts DEF Recorded, Tx, ActiveEthTransaction
<1>4. /\ succeeded => Tx.failure_corroborations = <<>>
      /\ ~succeeded => Tx.success_corroborations = <<>>
  BY <1>1, Zenon DEF AttemptInv, Known
<1>5. losers = <<>>
  BY <1>3, <1>4, Zenon
<1> HIDE DEF t
<1>6. CASE complete_transaction(r, t, succeeded)
  <2>1. offenders' = offenders \cup {losers[i] : i \in DOMAIN losers}
    BY <1>6 DEF complete_transaction
  <2>2. DOMAIN losers = {}
    BY <1>5
  <2> QED BY <2>1, <2>2
<1> QED BY <1>2, <1>6 DEF finalize_state

LEMMA ApplyEffect ==
    ASSUME TypeOK, OcwInv, NEW m, CallInv(m), m.instance = instance, Apply(m)
    PROVE  ChainEffect
<1>0. m.author \in Accounts
  BY DEF CallInv
<1>1. CASE m.call = "add_confirmation" /\ add_confirmation(m.id, m.confirmation, m.author)
  <2>1. Moves
    BY <1>1, ConfirmationMoves
  <2>2. settled' = settled /\ offenders' = offenders
    BY <1>1 DEF add_confirmation
  <2> QED BY <2>1, <2>2 DEF ChainEffect, ChainMoves
<1>2. CASE m.call = "add_eth_tx_hash" /\ add_eth_tx_hash(m.id, m.hash, m.author)
  <2>1. Moves
    BY <1>2, HashMoves DEF CallInv
  <2>2. settled' = settled /\ offenders' = offenders
    BY <1>2 DEF add_eth_tx_hash
  <2> QED BY <2>1, <2>2 DEF ChainEffect, ChainMoves
<1>3. CASE /\ m.call = "add_corroboration"
           /\ add_corroboration(m.id, m.succeeded, m.hash_is_valid, m.author, m.replay_attempt)
  <2>1. /\ Sending /\ m.id = Id /\ m.replay_attempt = Tx.replay_attempt /\ instance' = instance
    BY <1>3 DEF add_corroboration, corroboration_counts, is_active_request, Sending, Id, Tx
  <2>2. CorroborationInv(m)
    BY <1>3 DEF CallInv
  <2>3. m.succeeded \in BOOLEAN /\ m.hash_is_valid \in BOOLEAN /\ Known(Id, m.succeeded)
    BY <2>1, <2>2 DEF CorroborationInv
  <2>4. Moves \/ Votes(m.succeeded)
    BY <1>0, <1>3, <2>3, CorroborationMoves
  <2>5. settled' = settled \/ Settles(m.succeeded)
    BY <1>0, <1>3, <2>3, CorroborationSettles
  <2>6. offenders' = offenders
    BY <1>0, <1>3, <2>3, NobodyLoses DEF OcwInv
  <2> QED BY <2>1, <2>3, <2>4, <2>5, <2>6 DEF ChainEffect, ChainMoves
<1> QED BY <1>1, <1>2, <1>3 DEF Apply

LEMMA IncludeEffect ==
    ASSUME TypeOK, OcwInv, NEW m \in pool, Include(m)
    PROVE  ChainEffect
<1>1. CallInv(m)
  BY DEF OcwInv
<1>2. CASE StillValid(m) /\ Counts(m)
  BY <1>1, <1>2, ApplyEffect DEF Include, StillValid
<1>3. CASE ~(StillValid(m) /\ Counts(m))
  <2>1. UNCHANGED vars
    BY <1>3 DEF Include
  <2> QED BY <2>1, SameMoves DEF ChainEffect, ChainMoves, vars
<1> QED BY <1>2, <1>3

LEMMA CallerEffect ==
    ASSUME TypeOK, Caller
    PROVE  ChainEffect
<1>1. ASSUME NEW n \in ParamCounts, publish(n) PROVE ChainEffect
  <2> DEFINE r == [kind |-> "Send", id |-> nextTxId, nparams |-> n]
  <2>1. r \in Request /\ r.id = nextTxId /\ add_new_request(r)
    BY <1>1, IdsAssumption DEF publish, Request, TypeOK
  <2> HIDE DEF r
  <2>2. Moves
    BY <2>1, AcceptMoves
  <2> QED BY <2>1, <2>2 DEF ChainEffect, ChainMoves, add_new_request
<1>2. ASSUME NEW id \in LowerIds, generate_lower_proof(id) PROVE ChainEffect
  <2> DEFINE r == [kind |-> "LowerProof", id |-> id, nparams |-> 0]
  <2>1. r \in Request /\ r.kind # "Send" /\ add_new_request(r)
    BY <1>2, IdsAssumption DEF generate_lower_proof, Request
  <2> HIDE DEF r
  <2>2. Moves
    BY <2>1, AcceptMoves
  <2> QED BY <2>1, <2>2 DEF ChainEffect, ChainMoves, add_new_request
<1> QED BY <1>1, <1>2 DEF Caller

LEMMA OperatorEffect ==
    ASSUME TypeOK, Operator
    PROVE  ChainEffect
<1>1. CASE RemoveActiveRequest
  <2>1. Moves
    BY <1>1, RemoveMoves
  <2> QED BY <1>1, <2>1 DEF ChainEffect, ChainMoves, RemoveActiveRequest
<1>2. ASSUME NEW i \in Instances, i > instance, SetEthBridgeInstance(i) PROVE ChainEffect
  <2>1. Moves
    BY <1>2, InstanceMoves
  <2> QED BY <1>2, <2>1 DEF ChainEffect, ChainMoves, SetEthBridgeInstance
<1> QED BY <1>1, <1>2 DEF Operator

LEMMA SessionEffect ==
    ASSUME Session
    PROVE  ChainEffect
<1>1. UNCHANGED <<active, setups, instance, settled, offenders>>
  BY DEF Session, NewSession
<1> QED BY <1>1, SameMoves DEF ChainEffect, ChainMoves

ChainStep ==
    /\ ChainEffect /\ pool' \subseteq pool
    /\ UNCHANGED <<ethTxs, ethBlock, expired>>

LEMMA ChainSteps ==
    ASSUME TypeOK, OcwInv,
           Caller \/ Operator \/ Session \/ \E m \in pool : Include(m)
    PROVE  ChainStep
<1>1. ASSUME NEW m \in pool, Include(m) PROVE ChainStep
  <2>1. ChainEffect
    BY <1>1, IncludeEffect
  <2> QED BY <1>1, <2>1 DEF Include, ChainStep
<1>2. CASE Caller
  <2>1. ChainEffect
    BY <1>2, CallerEffect
  <2> QED BY <1>2, <2>1 DEF Caller, ChainStep
<1>3. CASE Operator
  <2>1. ChainEffect
    BY <1>3, OperatorEffect
  <2> QED BY <1>3, <2>1 DEF Operator, ChainStep
<1>4. CASE Session
  <2>1. ChainEffect
    BY <1>4, SessionEffect
  <2> QED BY <1>4, <2>1 DEF Session, ChainStep
<1> QED BY <1>1, <1>2, <1>3, <1>4
-------------------------------------------------------------------------------
(* A step outside the chain keeps the invariant *)

\* What is certain stays certain.
StaysCertain == \A id \in Nat, s \in BOOLEAN : Known(id, s) => Known(id, s)'

LEMMA SameAttempt ==
    ASSUME UNCHANGED vars
    PROVE  /\ Sending' = Sending /\ Id' = Id /\ Tx' = Tx
           /\ instance' = instance /\ setups' = setups
           /\ \A id : Old(id)' = Old(id)
BY DEF vars, Sending, Id, Tx, Old

LEMMA SameCall ==
    ASSUME UNCHANGED vars, StaysCertain, NEW m, CallInv(m)
    PROVE  CallInv(m)'
<1>1. /\ Sending' = Sending /\ Id' = Id /\ Tx' = Tx
      /\ instance' = instance /\ Old(m.id)' = Old(m.id)
  BY SameAttempt
<1>2. ASSUME CorroborationInv(m) PROVE CorroborationInv(m)'
  <2>1. /\ m.succeeded \in BOOLEAN /\ m.hash_is_valid \in BOOLEAN /\ m.replay_attempt \in Nat
        /\ Old(m.id)
        /\ Sending /\ m.id = Id /\ m.instance = instance =>
              /\ m.replay_attempt <= Tx.replay_attempt
              /\ m.replay_attempt = Tx.replay_attempt => Known(m.id, m.succeeded)
    BY <1>2 DEF CorroborationInv
  <2>2. Known(m.id, m.succeeded) => Known(m.id, m.succeeded)'
    BY <2>1 DEF StaysCertain, Old
  <2> QED BY <1>1, <2>1, <2>2 DEF CorroborationInv
<1> QED BY <1>1, <1>2 DEF CallInv

LEMMA OutsideKeeps ==
    ASSUME TypeOK, OcwInv, UNCHANGED vars, StaysCertain, ClockInv', TxsInv',
           \A m \in pool' : m \in pool \/ CallInv(m)'
    PROVE  OcwInv'
<1>1. /\ Sending' = Sending /\ Id' = Id /\ Tx' = Tx /\ setups' = setups
  BY SameAttempt
<1>2. AttemptInv'
  <2>1. CASE ~Sending
    BY <1>1, <2>1, IdleAttempt
  <2>2. CASE Sending
    <3>1. /\ Tx.expiry = setups /\ Tx.replay_attempt < setups
          /\ Tx.success_corroborations # <<>> => Known(Id, TRUE)
          /\ Tx.failure_corroborations # <<>> => Known(Id, FALSE)
      BY <2>2, Zenon DEF OcwInv, AttemptInv
    <3>2. PICK id \in Nat : id = Id
      BY <2>2, AttemptFacts
    <3>3. \A s \in BOOLEAN : Known(id, s) => Known(id, s)'
      BY DEF StaysCertain
    <3>4. ASSUME NEW s \in BOOLEAN, Known(id, s)' PROVE Known(Id, s)'
      BY <1>1, <3>2, <3>4 DEF Known, Executed
    <3> QED BY <1>1, <3>1, <3>2, <3>3, <3>4, Zenon DEF AttemptInv
  <2> QED BY <2>1, <2>2
<1>3. \A m \in pool' : CallInv(m)'
  BY SameCall DEF OcwInv
<1> QED BY <1>2, <1>3 DEF OcwInv

LEMMA SameTxs ==
    ASSUME OcwInv, UNCHANGED vars, UNCHANGED <<ethTxs, ethBlock>>
    PROVE  TxsInv'
<1>1. setups' = setups /\ \A id : Old(id)' = Old(id)
  BY SameAttempt
<1>2. \A id \in Nat : SentFor(id)' = SentFor(id)
  BY DEF SentFor
<1> QED BY <1>1, <1>2 DEF OcwInv, TxsInv

\* Steps that touch neither the chain nor Ethereum.
LEMMA WorkersKeep ==
    ASSUME TypeOK, OcwInv, UNCHANGED vars, UNCHANGED <<ethTxs, ethBlock, expired>>,
           \A m \in pool' : m \in pool \/ CallInv(m)'
    PROVE  OcwInv'
<1>1. StaysCertain
  BY SameKnown DEF StaysCertain, vars
<1>2. ClockInv'
  BY DEF OcwInv, ClockInv, vars
<1>3. TxsInv'
  BY SameTxs
<1> QED BY <1>1, <1>2, <1>3, OutsideKeeps

\* The id of the active Send is used up and appears nowhere in the queue.
LEMMA ActiveIsOld ==
    ASSUME TypeOK, ExactlyOnceInOrder, IdsInv, Sending
    PROVE  Old(Id)
<1> DEFINE n == Len(notified)
<1>0. /\ n \in Nat /\ Len(active) = 1 /\ Len(accepted) \in Nat /\ Len(queue) \in Nat
      /\ active[1].request.kind = "Send" /\ Id \in Nat
  <2>1. n \in Nat /\ Len(accepted) \in Nat /\ Len(queue) \in Nat
    BY DEF TypeOK
  <2>2. active # None /\ active[1].tx_data # None
    BY DEF Sending
  <2>3. Len(active) = 1 /\ active[1].request.kind = "Send"
    BY <2>2, ActiveFacts, TxFacts
  <2>4. Id \in Nat
    BY AttemptFacts
  <2> QED BY <2>1, <2>3, <2>4
<1>1. active[1].request = accepted[n + 1] /\ n + 1 \in 1..Len(accepted)
  BY <1>0 DEF ExactlyOnceInOrder
<1>2. Id < nextTxId
  BY <1>0, <1>1 DEF IdsInv, Id
<1>3. ASSUME NEW i \in 1..Len(queue), queue[i].kind = "Send", queue[i].id = Id PROVE FALSE
  <2>1. queue[i] = accepted[n + 1 + i] /\ n + 1 + i \in 1..Len(accepted) /\ n + 1 + i # n + 1
    BY <1>0 DEF ExactlyOnceInOrder
  <2> QED BY <1>0, <1>1, <1>3, <2>1 DEF IdsInv, Id
<1> QED BY <1>0, <1>2, <1>3 DEF Old

LEMMA ConfirmKeeps ==
    ASSUME TypeOK, OcwInv, NEW author \in Accounts, ocw_confirm(author)
    PROVE  OcwInv'
<1> DEFINE m == [call |-> "add_confirmation", id |-> active[1].request.id,
                 confirmation |-> [signer |-> author, msg |-> active[1].msg_hash],
                 author |-> author, instance |-> instance]
<1>1. /\ UNCHANGED vars /\ UNCHANGED <<ethTxs, ethBlock, expired>> /\ pool' = pool \cup {m}
  BY Zenon DEF ocw_confirm, Submit
<1>2. /\ m.call = "add_confirmation" /\ m.author = author /\ m.instance = instance
  OBVIOUS
<1>3. PICK x : x = m
  BY Zenon
<1> HIDE DEF m
<1>4. CallInv(x)'
  <2>1. instance \in Nat /\ instance \in Instances /\ instance' = instance
    BY <1>1, OcwLimitsAssumption, Zenon DEF TypeOK, vars
  <2>2. instance <= instance
    BY <2>1
  <2> QED BY <1>2, <1>3, <2>1, <2>2 DEF CallInv
<1> QED BY <1>1, <1>3, <1>4, WorkersKeep

\* check_tx_status answers what is certain.
LEMMA StatusIsCertain ==
    ASSUME TypeOK, OcwInv, Sending, check_tx_status(Id, Tx.expiry) # None
    PROVE  /\ check_tx_status(Id, Tx.expiry)[1] \in BOOLEAN
           /\ Known(Id, check_tx_status(Id, Tx.expiry)[1])
<1>0. Tx.expiry = setups /\ expired \in Nat /\ expired <= setups /\ setups \in Nat
  BY DEF OcwInv, AttemptInv, ClockInv, TypeOK
<1>1. CASE Executed(Id)
  <2>1. corroborate_status(Id, Tx.expiry) = 1
    BY <1>1 DEF corroborate_status
  <2>2. check_tx_status(Id, Tx.expiry) = Some(TRUE)
    BY <2>1, Zenon DEF check_tx_status
  <2>3. check_tx_status(Id, Tx.expiry)[1] = TRUE
    BY <2>2, SomeProperties, Zenon
  <2> QED BY <1>1, <2>3, Zenon DEF Known
<1>2. CASE ~Executed(Id)
  <2>1. Tx.expiry <= expired /\ corroborate_status(Id, Tx.expiry) = -1
    BY <1>2 DEF corroborate_status, check_tx_status
  <2>2. check_tx_status(Id, Tx.expiry) = Some(FALSE)
    <3>1. corroborate_status(Id, Tx.expiry) # 0 /\ corroborate_status(Id, Tx.expiry) # 1
      BY <2>1
    <3>2. (corroborate_status(Id, Tx.expiry) = 1) = FALSE
      BY <3>1
    <3> HIDE <2>1
    <3> QED BY <3>1, <3>2, Zenon DEF check_tx_status
  <2>3. check_tx_status(Id, Tx.expiry)[1] = FALSE
    BY <2>2, SomeProperties, Zenon
  <2>4. expired = setups
    BY <1>0, <2>1
  <2> QED BY <1>2, <2>3, <2>4, Zenon DEF Known
<1> QED BY <1>1, <1>2

LEMMA CorroborateKeeps ==
    ASSUME TypeOK, OcwInv, ExactlyOnceInOrder, IdsInv,
           NEW author \in Accounts, ocw_corroborate(author)
    PROVE  OcwInv'
<1> DEFINE status == check_tx_status(Id, Tx.expiry)
           valid == check_tx_hash(active[1])
           m == [call |-> "add_corroboration", id |-> Id, succeeded |-> status[1],
                 hash_is_valid |-> valid, author |-> author,
                 replay_attempt |-> Tx.replay_attempt, instance |-> instance]
<1>1. /\ UNCHANGED vars /\ UNCHANGED <<ethTxs, ethBlock, expired>> /\ pool' = pool \cup {m}
      /\ Sending /\ status # None
  BY Zenon DEF ocw_corroborate, Submit, Runs, Sending, Id, Tx
<1>2. valid \in BOOLEAN
  BY DEF check_tx_hash
<1>3. status[1] \in BOOLEAN /\ Known(Id, status[1])
  BY <1>1, StatusIsCertain
<1> HIDE DEF status, valid
<1>4. /\ m.call = "add_corroboration" /\ m.author = author /\ m.instance = instance
      /\ m.id = Id /\ m.succeeded = status[1] /\ m.hash_is_valid = valid
      /\ m.replay_attempt = Tx.replay_attempt
  OBVIOUS
<1>5. PICK x : x = m
  BY Zenon
<1> HIDE DEF m
<1>6. CallInv(x)
  <2>1. instance \in Nat /\ instance \in Instances
    BY OcwLimitsAssumption DEF TypeOK
  <2>2. /\ instance <= instance
        /\ Tx.replay_attempt \in Nat /\ Tx.replay_attempt <= Tx.replay_attempt
    BY <1>1, <2>1, AttemptFacts
  <2>3. Old(Id)
    BY <1>1, ActiveIsOld
  <2>4. CorroborationInv(x)
    BY <1>2, <1>3, <1>4, <1>5, <2>2, <2>3 DEF CorroborationInv
  <2> QED BY <1>4, <1>5, <2>1, <2>2, <2>4, Zenon DEF CallInv
<1>7. StaysCertain
  BY <1>1, SameKnown DEF StaysCertain, vars
<1>8. CallInv(x)'
  BY <1>1, <1>6, <1>7, SameCall
<1> QED BY <1>1, <1>5, <1>8, WorkersKeep

\* What ocw_send adds: a pending transaction with the call data of the active Send.
LEMMA SendEffect ==
    ASSUME TypeOK, OcwInv, NEW author \in Accounts, ocw_send(author)
    PROVE  /\ Sending /\ UNCHANGED vars /\ UNCHANGED <<ethBlock, expired>>
           /\ Len(ethTxs) \in Nat /\ Len(ethTxs') = Len(ethTxs) + 1
           /\ ethTxs' \in Seq(SentTx)
           /\ \A h \in 1..Len(ethTxs) : ethTxs'[h] = ethTxs[h]
           /\ ethTxs'[Len(ethTxs) + 1].state = "pending"
           /\ ethTxs'[Len(ethTxs) + 1].calldata.request.id = Id
           /\ ethTxs'[Len(ethTxs) + 1].calldata.expiry = Tx.expiry
<1> DEFINE c == send_calldata(active[1])
           tx == [calldata |-> c, instance |-> instance, state |-> "pending", block |-> 0]
<1>1. /\ Sending /\ UNCHANGED vars /\ UNCHANGED <<ethBlock, expired>>
      /\ ethTxs' = Append(ethTxs, tx)
  BY Zenon DEF ocw_send, Runs, Sending
<1>2. ethTxs \in Seq(SentTx) /\ instance \in Instances
  BY Zenon DEF OcwInv, TxsInv, TypeOK
<1>3. active[1] \in ActiveRequestData /\ Tx.expiry \in Nat
  BY <1>1, ActiveFacts, AttemptFacts, Zenon DEF Sending
<1>4. /\ c \in [request : Request, expiry : Nat, confirmations : Seq(Signature)]
      /\ c.request.id = Id /\ c.expiry = Tx.expiry
  BY <1>3 DEF send_calldata, ActiveRequestData, Tx, Id
<1> HIDE DEF c
<1>5. tx \in SentTx /\ tx.state = "pending" /\ tx.calldata = c
  BY <1>2, <1>4 DEF SentTx
<1> HIDE DEF tx
<1>6. /\ Append(ethTxs, tx) \in Seq(SentTx) /\ Len(Append(ethTxs, tx)) = Len(ethTxs) + 1
      /\ \A h \in 1..Len(ethTxs) : Append(ethTxs, tx)[h] = ethTxs[h]
      /\ Append(ethTxs, tx)[Len(ethTxs) + 1] = tx
      /\ Len(ethTxs) \in Nat
  BY <1>2, <1>5, AppendProperties
<1> QED BY <1>1, <1>4, <1>5, <1>6

\* A pending transaction changes no outcome.
LEMMA SendExecutes ==
    ASSUME TypeOK, OcwInv, NEW author \in Accounts, ocw_send(author), NEW id
    PROVE  Executed(id)' <=> Executed(id)
<1>1. /\ UNCHANGED vars /\ Len(ethTxs) \in Nat /\ Len(ethTxs') = Len(ethTxs) + 1
      /\ \A h \in 1..Len(ethTxs) : ethTxs'[h] = ethTxs[h]
      /\ ethTxs'[Len(ethTxs) + 1].state = "pending"
  BY SendEffect
<1>2. DOMAIN ethTxs = 1..Len(ethTxs) /\ DOMAIN ethTxs' = 1..Len(ethTxs')
  BY SendEffect DEF OcwInv, TxsInv
<1>3. instance' = instance
  BY <1>1 DEF vars
<1>4. ASSUME NEW h \in 1..Len(ethTxs), ethTxs[h].state = "executed",
             ethTxs[h].calldata.request.id = id, ethTxs[h].instance = instance
      PROVE  Executed(id)'
  <2>1. h \in DOMAIN ethTxs' /\ ethTxs'[h] = ethTxs[h]
    BY <1>1, <1>2
  <2> QED BY <1>3, <1>4, <2>1 DEF Executed
<1>5. ASSUME NEW h \in 1..Len(ethTxs'), ethTxs'[h].state = "executed",
             ethTxs'[h].calldata.request.id = id, ethTxs'[h].instance = instance'
      PROVE  Executed(id)
  <2>1. h \in 1..Len(ethTxs)
    BY <1>1, <1>5
  <2>2. ethTxs'[h] = ethTxs[h] /\ h \in DOMAIN ethTxs
    BY <1>1, <1>2, <2>1
  <2> QED BY <1>3, <1>5, <2>2 DEF Executed
<1> QED BY <1>2, <1>4, <1>5 DEF Executed

LEMMA SendKeeps ==
    ASSUME TypeOK, OcwInv, ExactlyOnceInOrder, IdsInv,
           NEW author \in Accounts, ocw_send(author)
    PROVE  OcwInv'
<1>1. /\ Sending /\ UNCHANGED vars /\ UNCHANGED <<ethBlock, expired>>
      /\ Len(ethTxs) \in Nat /\ Len(ethTxs') = Len(ethTxs) + 1 /\ ethTxs' \in Seq(SentTx)
      /\ \A h \in 1..Len(ethTxs) : ethTxs'[h] = ethTxs[h]
      /\ ethTxs'[Len(ethTxs) + 1].calldata.request.id = Id
      /\ ethTxs'[Len(ethTxs) + 1].calldata.expiry = Tx.expiry
  BY SendEffect
<1>2. /\ setups' = setups /\ expired' = expired /\ instance' = instance
      /\ \A id : Old(id)' = Old(id)
  BY <1>1, SameAttempt
<1>3. ClockInv'
  BY <1>2 DEF OcwInv, ClockInv
<1>4. StaysCertain
  BY <1>2, SendExecutes DEF StaysCertain, Known
<1>5. ASSUME NEW h \in 1..Len(ethTxs') PROVE h \in 1..Len(ethTxs) \/ h = Len(ethTxs) + 1
  BY <1>1, <1>5
<1>6. TxsInv'
  <2>1. \A h \in 1..Len(ethTxs') : ethTxs'[h].calldata.expiry <= setups
    <3>1. Tx.expiry = setups /\ setups <= setups
      BY <1>1 DEF OcwInv, AttemptInv, TypeOK
    <3> QED BY <1>1, <1>5, <3>1 DEF OcwInv, TxsInv
  <2>2. ASSUME NEW id \in Nat, SentFor(id)' PROVE Old(id)
    <3>1. PICK h \in 1..Len(ethTxs') : ethTxs'[h].calldata.request.id = id
      BY <2>2 DEF SentFor
    <3>2. CASE h \in 1..Len(ethTxs)
      <4>1. SentFor(id)
        BY <1>1, <3>1, <3>2 DEF SentFor
      <4> QED BY <4>1 DEF OcwInv, TxsInv
    <3>3. CASE h = Len(ethTxs) + 1
      BY <1>1, <3>1, <3>3, ActiveIsOld
    <3> QED BY <1>5, <3>2, <3>3
  <2> QED BY <1>1, <1>2, <2>1, <2>2 DEF OcwInv, TxsInv
<1>7. ASSUME NEW x \in pool' PROVE x \in pool \/ CallInv(x)'
  <2> DEFINE m == [call |-> "add_eth_tx_hash", id |-> Id, hash |-> Len(ethTxs) + 1,
                   author |-> author, instance |-> instance]
  <2>1. (pool' = pool \/ pool' = pool \cup {m}) /\ Len(ethTxs) + 1 <= MaxEthTxs
    BY Zenon DEF ocw_send, Submit, Id
  <2>2. /\ m.call = "add_eth_tx_hash" /\ m.author = author /\ m.instance = instance
        /\ m.hash = Len(ethTxs) + 1
    OBVIOUS
  <2> HIDE DEF m
  <2>3. Len(ethTxs) + 1 \in EthTxHashes
    BY <1>1, <2>1, OcwLimitsAssumption
  <2>4. instance \in Nat /\ instance \in Instances
    BY OcwLimitsAssumption DEF TypeOK
  <2>5. instance <= instance
    BY <2>4
  <2>6. ASSUME x = m PROVE CallInv(x)'
    BY <1>2, <2>2, <2>3, <2>4, <2>5, <2>6 DEF CallInv
  <2> QED BY <1>7, <2>1, <2>6
<1> QED BY <1>1, <1>3, <1>4, <1>6, <1>7, OutsideKeeps

LEMMA ExpireKeeps ==
    ASSUME TypeOK, OcwInv, Expire
    PROVE  OcwInv' /\ expired' >= expired /\ expired \in Nat /\ expired' \in Nat
<1>1. /\ Sending /\ UNCHANGED vars /\ UNCHANGED <<pool, ethTxs, ethBlock>>
      /\ expired' = Tx.expiry /\ Tx.expiry > expired
  BY DEF Expire, Sending, Tx
<1>2. /\ setups' = setups /\ instance' = instance
      /\ Tx.expiry = setups /\ setups \in Nat /\ expired \in Nat /\ expired <= setups
      /\ setups <= MaxSetups
  BY <1>1, SameAttempt DEF OcwInv, AttemptInv, ClockInv, TypeOK
<1>3. ClockInv' /\ expired' >= expired /\ expired' \in Nat
  BY <1>1, <1>2 DEF ClockInv
<1>4. \A id : Executed(id)' = Executed(id)
  BY <1>1, <1>2 DEF Executed
<1>5. StaysCertain
  BY <1>1, <1>2, <1>4 DEF StaysCertain, Known
<1>6. TxsInv'
  BY <1>1, SameTxs
<1> QED BY <1>1, <1>2, <1>3, <1>5, <1>6, OutsideKeeps

\* Mining a transaction runs it only before its deadline, and undoes nothing.
MinedAs(k) ==
    /\ ethTxs'[k].calldata = ethTxs[k].calldata
    /\ ethTxs'[k].instance = ethTxs[k].instance
    /\ ethTxs[k].state = "executed" => ethTxs'[k].state = "executed"
    /\ ethTxs'[k].state = "executed" =>
          ethTxs[k].state = "executed" \/ ethTxs[k].calldata.expiry > expired

LEMMA MineEffect ==
    ASSUME OcwInv, NEW h \in DOMAIN ethTxs, Mine(h)
    PROVE  /\ UNCHANGED vars /\ UNCHANGED <<pool, expired>>
           /\ ethTxs' \in Seq(SentTx) /\ Len(ethTxs') = Len(ethTxs) /\ Len(ethTxs) \in Nat
           /\ ethBlock' \in Nat
           /\ \A k \in 1..Len(ethTxs) : MinedAs(k)
<1> DEFINE state == IF ContractAccepts(ethTxs[h]) THEN "executed" ELSE "reverted"
           tx == [ethTxs[h] EXCEPT !.state = state, !.block = ethBlock + 1]
<1>1. /\ UNCHANGED vars /\ UNCHANGED <<pool, expired>> /\ ethBlock' = ethBlock + 1
      /\ ethTxs[h].state = "pending"
      /\ ethTxs' = [ethTxs EXCEPT ![h].state = state, ![h].block = ethBlock + 1]
  BY DEF Mine
<1>2. ethTxs \in Seq(SentTx) /\ ethBlock \in Nat /\ Len(ethTxs) \in Nat
  BY DEF OcwInv, TxsInv
<1>3. h \in 1..Len(ethTxs) /\ DOMAIN ethTxs = 1..Len(ethTxs) /\ ethTxs[h] \in SentTx
  BY <1>2, ElementOfSeq
<1>4. state \in {"executed", "reverted"}
      /\ (state = "executed" => ethTxs[h].calldata.expiry > expired)
  BY Zenon DEF ContractAccepts
<1> HIDE DEF state
<1>5. /\ tx \in SentTx /\ tx.calldata = ethTxs[h].calldata /\ tx.instance = ethTxs[h].instance
      /\ tx.state = state
  <2>1. ethBlock + 1 \in Nat /\ state \in {"pending", "executed", "reverted"}
    BY <1>2, <1>4
  <2>2. tx \in SentTx
    BY <1>3, <2>1, Zenon DEF SentTx
  <2>3. /\ tx.calldata = ethTxs[h].calldata /\ tx.instance = ethTxs[h].instance
        /\ tx.state = state
    BY <1>3 DEF SentTx
  <2> QED BY <2>2, <2>3
<1>6. ethTxs' = [ethTxs EXCEPT ![h] = tx]
  BY <1>1, <1>3, Zenon
<1> HIDE DEF tx
<1>7. /\ ethTxs' \in Seq(SentTx) /\ Len(ethTxs') = Len(ethTxs) /\ ethTxs'[h] = tx
      /\ \A k \in 1..Len(ethTxs) : k # h => ethTxs'[k] = ethTxs[k]
  BY <1>2, <1>3, <1>5, <1>6, ExceptSeq
<1>8. ASSUME NEW k \in 1..Len(ethTxs) PROVE MinedAs(k)
  <2>1. CASE k = h
    BY <1>1, <1>4, <1>5, <1>7, <2>1 DEF MinedAs
  <2>2. CASE k # h
    BY <1>7, <2>2 DEF MinedAs
  <2> QED BY <2>1, <2>2
<1>9. ethBlock' \in Nat
  BY <1>1, <1>2
<1> QED BY <1>1, <1>2, <1>7, <1>8, <1>9

LEMMA MineExecutes ==
    ASSUME OcwInv, NEW h \in DOMAIN ethTxs, Mine(h), NEW id
    PROVE  /\ Executed(id) => Executed(id)'
           /\ Executed(id)' /\ ~Executed(id) =>
                 \E k \in 1..Len(ethTxs) : /\ ethTxs[k].calldata.request.id = id
                                           /\ ethTxs[k].calldata.expiry > expired
<1>1. /\ UNCHANGED vars /\ ethTxs' \in Seq(SentTx) /\ Len(ethTxs') = Len(ethTxs)
      /\ \A k \in 1..Len(ethTxs) : MinedAs(k)
  BY MineEffect
<1>2. DOMAIN ethTxs = 1..Len(ethTxs) /\ DOMAIN ethTxs' = 1..Len(ethTxs)
  BY <1>1 DEF OcwInv, TxsInv
<1>3. instance' = instance
  BY <1>1 DEF vars
<1> QED BY <1>1, <1>2, <1>3, Zenon DEF Executed, MinedAs

LEMMA MineKeeps ==
    ASSUME TypeOK, OcwInv, NEW h \in DOMAIN ethTxs, Mine(h)
    PROVE  OcwInv'
<1>1. /\ UNCHANGED vars /\ UNCHANGED <<pool, expired>>
      /\ ethTxs' \in Seq(SentTx) /\ Len(ethTxs') = Len(ethTxs) /\ Len(ethTxs) \in Nat
      /\ ethBlock' \in Nat
      /\ \A k \in 1..Len(ethTxs) : ethTxs'[k].calldata = ethTxs[k].calldata
  BY MineEffect DEF MinedAs
<1>2. setups' = setups /\ \A id : Old(id)' = Old(id)
  BY <1>1, SameAttempt
<1>3. ClockInv'
  BY <1>1, <1>2 DEF OcwInv, ClockInv
<1>4. TxsInv'
  <2>1. \A id \in Nat : SentFor(id)' = SentFor(id)
    BY <1>1 DEF SentFor
  <2>2. \A k \in 1..Len(ethTxs') : ethTxs'[k].calldata.expiry <= setups'
    BY <1>1, <1>2 DEF OcwInv, TxsInv
  <2> QED BY <1>1, <1>2, <2>1, <2>2 DEF OcwInv, TxsInv
<1>5. ASSUME NEW id \in Nat, NEW s \in BOOLEAN, Known(id, s) PROVE Known(id, s)'
  <2>1. CASE s
    BY <1>5, <2>1, MineExecutes DEF Known
  <2>2. CASE ~s
    <3>1. expired = setups /\ ~Executed(id)
      BY <1>5, <2>2 DEF Known
    <3>2. ASSUME NEW k \in 1..Len(ethTxs) PROVE ~(ethTxs[k].calldata.expiry > expired)
      <4>1. ethTxs[k] \in SentTx /\ ethTxs[k].calldata.expiry <= setups
        BY ElementOfSeq DEF OcwInv, TxsInv
      <4>2. ethTxs[k].calldata.expiry \in Nat /\ setups \in Nat
        BY <4>1 DEF SentTx, TypeOK
      <4> QED BY <3>1, <4>1, <4>2
    <3>3. ~Executed(id)'
      BY <3>1, <3>2, MineExecutes
    <3> QED BY <1>1, <1>2, <2>2, <3>1, <3>3 DEF Known
  <2> QED BY <2>1, <2>2
<1>6. StaysCertain
  BY <1>5 DEF StaysCertain
<1> QED BY <1>1, <1>3, <1>4, <1>6, OutsideKeeps
-------------------------------------------------------------------------------
(* The invariant of the composed system *)

Invariant ==
    /\ TypeOK /\ ExactlyOnceInOrder /\ IdsInv
    /\ OcwInv /\ SettledInv /\ HonestNeverReported

LEMMA LoseKeeps ==
    ASSUME TypeOK, OcwInv,
           (\E m \in pool : Lose(m)) \/ Finalise \/ (\E lock \in locks : ExpireLock(lock))
             \/ UNCHANGED allVars
    PROVE  OcwInv' /\ UNCHANGED vars /\ UNCHANGED <<ethTxs, expired>>
<1>1. UNCHANGED vars /\ UNCHANGED <<ethTxs, ethBlock, expired>> /\ pool' \subseteq pool
  BY Zenon DEF Lose, Finalise, ExpireLock, allVars, ocwVars
<1> QED BY <1>1, WorkersKeep

LEMMA OcwStep ==
    ASSUME TypeOK, TypeOK', ExactlyOnceInOrder, IdsInv, OcwInv, [OcwNext]_allVars
    PROVE  OcwInv'
<1>1. [Next]_vars
  BY StepIsNext
<1>2. CASE ChainStep
  BY <1>1, <1>2, ChainKeeps DEF ChainStep, ChainEffect
<1>3. ASSUME NEW author \in Accounts, Ocw(author) PROVE OcwInv'
  BY <1>3, ConfirmKeeps, SendKeeps, CorroborateKeeps DEF Ocw
<1>4. CASE Expire
  BY <1>4, ExpireKeeps
<1>5. ASSUME NEW h \in DOMAIN ethTxs, Mine(h) PROVE OcwInv'
  BY <1>5, MineKeeps
<1> QED BY <1>2, <1>3, <1>4, <1>5, ChainSteps, LoseKeeps DEF OcwNext

\* What was settled earlier.
LEMMA OldOutcome ==
    ASSUME TypeOK, NEW id, CertainOutcome(id), id \in DOMAIN settled,
           id \in DOMAIN settled', settled'[id] = settled[id],
           UNCHANGED <<ethTxs, expired, instance>>
    PROVE  CertainOutcome(id)'
BY DEF CertainOutcome, Executed

LEMMA NewOutcome ==
    ASSUME TypeOK, OcwInv, NEW s \in BOOLEAN, NEW id, Known(id, s),
           settled'[id].tx_succeeded = s, UNCHANGED <<ethTxs, expired, instance>>
    PROVE  CertainOutcome(id)'
<1>1. Executed(id)' = Executed(id)
  BY Zenon DEF Executed
<1>2. s <=> Executed(id)
  BY DEF Known
<1>3. ~s => \A h \in 1..Len(ethTxs) : ethTxs[h].calldata.expiry <= expired
  BY DEF Known, OcwInv, TxsInv
<1> QED BY <1>1, <1>2, <1>3, Zenon DEF CertainOutcome

LEMMA ChainSettles ==
    ASSUME TypeOK, TypeOK', OcwInv, SettledInv, ChainStep
    PROVE  SettledInv'
<1>0. instance \in Nat /\ instance' \in Nat /\ instance' >= instance /\ instance >= 1
  <2>1. instance \in Nat /\ instance' \in Nat /\ instance >= 1
    BY OcwLimitsAssumption, Zenon DEF TypeOK, SettledInv
  <2>2. ChainMoves
    BY DEF ChainStep, ChainEffect
  <2> QED BY <2>1, <2>2 DEF ChainMoves, Moves, KeepsAttempt, NewAttempt, Votes
<1>1. SUFFICES ASSUME instance' = 1, NEW id \in DOMAIN settled'
               PROVE  CertainOutcome(id)'
  BY <1>0 DEF SettledInv
<1>2. instance = 1 /\ instance' = instance /\ UNCHANGED <<ethTxs, expired>>
  BY <1>0, <1>1 DEF ChainStep
<1>3. \A x \in DOMAIN settled : CertainOutcome(x)
  BY <1>2 DEF SettledInv
<1>4. CASE settled' = settled
  BY <1>1, <1>2, <1>3, <1>4, OldOutcome
<1>5. ASSUME NEW s \in BOOLEAN, Settles(s), Known(Id, s) PROVE CertainOutcome(id)'
  <2>1. CASE id = Id
    <3>1. settled'[id].tx_succeeded = s /\ Known(id, s)
      BY <1>5, <2>1 DEF Settles, Id
    <3> QED BY <1>2, <3>1, NewOutcome
  <2>2. CASE id # Id
    <3>1. id \in DOMAIN settled /\ settled'[id] = settled[id]
      BY <1>1, <1>5, <2>2 DEF Settles, Id
    <3> QED BY <1>1, <1>2, <1>3, <3>1, OldOutcome, Zenon
  <2> QED BY <2>1, <2>2
<1> QED BY <1>4, <1>5 DEF ChainStep, ChainEffect

\* Ethereum changes nothing about what is settled.
LEMMA OutsideSettles ==
    ASSUME UNCHANGED vars, SettledInv,
           \A id \in DOMAIN settled : CertainOutcome(id) => CertainOutcome(id)'
    PROVE  SettledInv'
BY DEF SettledInv, vars

LEMMA SendSettles ==
    ASSUME TypeOK, OcwInv, ExactlyOnceInOrder, IdsInv, SettledInv,
           NEW author \in Accounts, ocw_send(author)
    PROVE  SettledInv'
<1>1. /\ Sending /\ UNCHANGED vars /\ expired' = expired
      /\ Len(ethTxs) \in Nat /\ Len(ethTxs') = Len(ethTxs) + 1
      /\ \A h \in 1..Len(ethTxs) : ethTxs'[h] = ethTxs[h]
      /\ ethTxs'[Len(ethTxs) + 1].calldata.request.id = Id
  BY SendEffect, Zenon
<1>2. Id \notin DOMAIN settled
  BY <1>1, ActiveIsNew, TxFacts, Zenon DEF Sending, Id
<1>3. ASSUME NEW id \in DOMAIN settled, CertainOutcome(id) PROVE CertainOutcome(id)'
  <2>1. settled' = settled /\ (Executed(id)' <=> Executed(id))
    BY <1>1, SendExecutes, Zenon DEF vars
  <2>2. ASSUME NEW h \in 1..Len(ethTxs'), ethTxs'[h].calldata.request.id = id
        PROVE  h \in 1..Len(ethTxs) /\ ethTxs'[h] = ethTxs[h]
    <3>1. h # Len(ethTxs) + 1
      BY <1>1, <1>2, <1>3, <2>2
    <3>2. h \in 1..Len(ethTxs)
      BY <1>1, <2>2, <3>1
    <3> QED BY <1>1, <3>2
  <2>3. ~settled[id].tx_succeeded =>
           \A h \in 1..Len(ethTxs') :
               ethTxs'[h].calldata.request.id = id => ethTxs'[h].calldata.expiry <= expired'
    BY <1>1, <1>3, <2>2 DEF CertainOutcome
  <2> QED BY <1>3, <2>1, <2>3, Zenon DEF CertainOutcome
<1> QED BY <1>1, <1>3, OutsideSettles, Zenon

LEMMA MineSettles ==
    ASSUME TypeOK, OcwInv, SettledInv, NEW h \in DOMAIN ethTxs, Mine(h)
    PROVE  SettledInv'
<1>1. /\ UNCHANGED vars /\ expired' = expired /\ Len(ethTxs') = Len(ethTxs)
      /\ \A k \in 1..Len(ethTxs) : ethTxs'[k].calldata = ethTxs[k].calldata
  BY MineEffect DEF MinedAs
<1>2. ASSUME NEW id \in DOMAIN settled, CertainOutcome(id) PROVE CertainOutcome(id)'
  <2>1. settled' = settled
    BY <1>1 DEF vars
  <2>2. CASE settled[id].tx_succeeded
    <3>1. Executed(id)'
      BY <1>2, <2>2, MineExecutes DEF CertainOutcome
    <3> QED BY <2>1, <2>2, <3>1 DEF CertainOutcome
  <2>3. CASE ~settled[id].tx_succeeded
    <3>1. ~Executed(id) /\ \A k \in 1..Len(ethTxs) :
             ethTxs[k].calldata.request.id = id => ethTxs[k].calldata.expiry <= expired
      BY <1>2, <2>3, Zenon DEF CertainOutcome
    <3>2. ASSUME NEW k \in 1..Len(ethTxs), ethTxs[k].calldata.request.id = id
          PROVE  ~(ethTxs[k].calldata.expiry > expired)
      <4>1. ethTxs[k] \in SentTx /\ expired \in Nat
        BY ElementOfSeq DEF OcwInv, TxsInv, ClockInv
      <4>2. ethTxs[k].calldata.expiry \in Nat
        BY <4>1 DEF SentTx
      <4> QED BY <3>1, <3>2, <4>1, <4>2
    <3>3. ~Executed(id)'
      BY <3>1, <3>2, MineExecutes, Zenon
    <3> QED BY <1>1, <2>1, <2>3, <3>1, <3>3, Zenon DEF CertainOutcome
  <2> QED BY <2>2, <2>3
<1> QED BY <1>1, <1>2, OutsideSettles

LEMMA ExpireSettles ==
    ASSUME TypeOK, OcwInv, SettledInv, Expire
    PROVE  SettledInv'
<1>1. /\ UNCHANGED vars /\ ethTxs' = ethTxs
      /\ expired' >= expired /\ expired \in Nat /\ expired' \in Nat
  BY ExpireKeeps, Zenon DEF Expire
<1>2. ASSUME NEW id \in DOMAIN settled, CertainOutcome(id) PROVE CertainOutcome(id)'
  <2>1. settled' = settled /\ Executed(id)' = Executed(id)
    BY <1>1 DEF vars, Executed
  <2>2. ASSUME NEW h \in 1..Len(ethTxs), ethTxs[h].calldata.expiry <= expired
        PROVE  ethTxs[h].calldata.expiry <= expired'
    <3>1. ethTxs[h] \in SentTx
      BY ElementOfSeq DEF OcwInv, TxsInv
    <3>2. ethTxs[h].calldata.expiry \in Nat
      BY <3>1 DEF SentTx
    <3> QED BY <1>1, <2>2, <3>2
  <2> QED BY <1>1, <1>2, <2>1, <2>2, Zenon DEF CertainOutcome
<1> QED BY <1>1, <1>2, OutsideSettles

LEMMA StaySettled ==
    ASSUME SettledInv, UNCHANGED vars, UNCHANGED <<ethTxs, expired>>
    PROVE  SettledInv'
BY Zenon DEF SettledInv, CertainOutcome, Executed, vars

LEMMA SettledStep ==
    ASSUME TypeOK, TypeOK', ExactlyOnceInOrder, IdsInv, OcwInv, SettledInv,
           [OcwNext]_allVars
    PROVE  SettledInv'
<1>1. CASE ChainStep
  BY <1>1, ChainSettles
<1>2. ASSUME NEW author \in Accounts, Ocw(author) PROVE SettledInv'
  <2>1. CASE ocw_send(author)
    BY <2>1, SendSettles
  <2>2. CASE ocw_confirm(author) \/ ocw_corroborate(author)
    <3>1. UNCHANGED vars /\ UNCHANGED <<ethTxs, expired>>
      BY <2>2, Zenon DEF ocw_confirm, ocw_corroborate
    <3> QED BY <3>1, StaySettled
  <2> QED BY <1>2, <2>1, <2>2 DEF Ocw
<1>3. CASE Expire
  BY <1>3, ExpireSettles
<1>4. ASSUME NEW h \in DOMAIN ethTxs, Mine(h) PROVE SettledInv'
  BY <1>4, MineSettles
<1> QED BY <1>1, <1>2, <1>3, <1>4, ChainSteps, LoseKeeps, StaySettled DEF OcwNext

\* A step either belongs to the chain or leaves its storage alone.
LEMMA ChainOrOutside ==
    ASSUME TypeOK, OcwInv, [OcwNext]_allVars
    PROVE  ChainStep \/ UNCHANGED vars
<1>1. ASSUME NEW author \in Accounts, Ocw(author) PROVE UNCHANGED vars
  BY <1>1, Zenon DEF Ocw, ocw_confirm, ocw_send, ocw_corroborate
<1>2. CASE Expire \/ \E h \in DOMAIN ethTxs : Mine(h)
  BY <1>2, Zenon DEF Expire, Mine
<1> QED BY <1>1, <1>2, ChainSteps, LoseKeeps DEF OcwNext

LEMMA InvariantInit ==
    ASSUME OcwInit
    PROVE  Invariant
<1>1. Init /\ instance = 1 /\ pool = {} /\ ethTxs = <<>> /\ expired = 0
      /\ ethBlock = MinEthBlockConfirmation
  BY DEF OcwInit
<1>2. TypeOK
  BY <1>1, InitType
<1>3. /\ queue = <<>> /\ active = <<>> /\ accepted = <<>> /\ notified = <<>>
      /\ DOMAIN settled = {}
  BY <1>1 DEF Init, None
<1>4. /\ Len(queue) = 0 /\ Len(active) = 0 /\ Len(accepted) = 0 /\ Len(notified) = 0
  BY <1>3, EmptySeq
<1>5. ExactlyOnceInOrder
  BY <1>3, <1>4 DEF ExactlyOnceInOrder
<1>6. IdsInv
  BY <1>3, <1>4 DEF IdsInv
<1>7. ClockInv
  BY <1>1, LimitsAssumption DEF Init, ClockInv
<1>8. AttemptInv
  BY <1>1 DEF Init, AttemptInv, Sending
<1>9. TxsInv
  <2>1. ethTxs \in Seq(SentTx) /\ Len(ethTxs) = 0
    BY <1>1, EmptySeq
  <2> QED BY <1>1, <2>1, OcwLimitsAssumption DEF TxsInv, SentFor
<1>10. SettledInv /\ HonestNeverReported
  BY <1>1 DEF Init, SettledInv, HonestNeverReported
<1> QED BY <1>1, <1>2, <1>5, <1>6, <1>7, <1>8, <1>9, <1>10 DEF Invariant, OcwInv

LEMMA InvariantStep ==
    ASSUME Invariant, [OcwNext]_allVars
    PROVE  Invariant'
<1>0. /\ TypeOK /\ ExactlyOnceInOrder /\ IdsInv
      /\ OcwInv /\ SettledInv /\ HonestNeverReported
  BY DEF Invariant
<1>1. [Next]_vars
  BY <1>0, StepIsNext
<1>2. TypeOK' /\ Shape
  BY <1>0, <1>1, StepShape
<1>3. ExactlyOnceInOrder'
  BY <1>0, <1>2, OrderStep
<1>4. IdsInv'
  BY <1>0, <1>1, <1>2, IdsStep
<1>5. OcwInv'
  BY <1>0, <1>2, OcwStep
<1>6. SettledInv'
  BY <1>0, <1>2, SettledStep
<1>7. HonestNeverReported'
  <2>1. offenders' = offenders
    BY <1>0, ChainOrOutside DEF ChainStep, ChainEffect, vars
  <2> QED BY <1>0, <2>1 DEF HonestNeverReported
<1> QED BY <1>2, <1>3, <1>4, <1>5, <1>6, <1>7 DEF Invariant

\* The invariant behind the theorems below: every vote on the active Send, and every
\* corroboration of its current attempt still in the pool, says what is certain
\* about it (check_tx_status answers only then).
THEOREM InvariantHolds == OcwSpec => []Invariant
<1>1. OcwInit => Invariant
  BY InvariantInit
<1>2. Invariant /\ [OcwNext]_allVars => Invariant'
  BY InvariantStep
<1> QED BY <1>1, <1>2, PTL DEF OcwSpec

\* The pallet with its workers, the pool and Ethereum takes only steps that the
\* pallet on its own can take, so everything proved of EthBridgeRequests holds in
\* the composed system.
THEOREM ComposedIsRequests == OcwSpec => Spec
<1>1. OcwInit => Init
  BY DEF OcwInit
<1>2. Invariant /\ [OcwNext]_allVars => [Next]_vars
  BY StepIsNext DEF Invariant
<1> QED BY InvariantHolds, <1>1, <1>2, PTL DEF OcwSpec, Spec

\* Two honest corroborations of one attempt never disagree about the outcome,
\* whatever is delayed, lost or overtaken, so complete_transaction reports nobody.
THEOREM HonestAreNeverReported == OcwSpec => []HonestNeverReported
<1>1. Invariant => HonestNeverReported
  BY DEF Invariant
<1> QED BY InvariantHolds, <1>1, PTL

\* What finalize_state stores is what the contract says of the Send, and remains
\* true: a Send stored as failed never runs, whatever is still on its way to
\* Ethereum.
THEOREM SettledAgreesWithEthereum == OcwSpec => []SettledAsOnEthereum
<1>1. Invariant => SettledAsOnEthereum
  BY DEF Invariant, SettledInv, CertainOutcome, SettledAsOnEthereum
<1> QED BY InvariantHolds, <1>1, PTL

\* In every instance of the bridge a Send is settled by what its contract says at
\* that moment; add_corroboration does not count a call of an earlier attempt, and
\* validate_unsigned refuses one signed for an earlier instance.
THEOREM SettledByTheTruth == OcwSpec => SettledTruthfully
<1> DEFINE Truthful == \A id \in DOMAIN settled' \ DOMAIN settled :
                          settled'[id].tx_succeeded <=> Executed(id)
<1>1. ASSUME Invariant, [OcwNext]_allVars PROVE Truthful
  <2>1. TypeOK /\ OcwInv
    BY <1>1 DEF Invariant
  <2>2. CASE settled' = settled
    BY <2>2
  <2>3. ASSUME NEW s \in BOOLEAN, Settles(s), Known(Id, s) PROVE Truthful
    <3>1. ASSUME NEW id \in DOMAIN settled' \ DOMAIN settled
          PROVE  settled'[id].tx_succeeded <=> Executed(id)
      <4>1. id = Id /\ settled'[id].tx_succeeded = s
        BY <2>3, <3>1, Zenon DEF Settles, Id
      <4>2. s <=> Executed(id)
        BY <2>3, <4>1 DEF Known
      <4> QED BY <4>1, <4>2
    <3> QED BY <3>1
  <2> QED BY <1>1, <2>1, <2>2, <2>3, ChainOrOutside DEF ChainStep, ChainEffect, vars
<1>2. Invariant /\ [OcwNext]_allVars => [Truthful]_allVars
  BY <1>1
<1> QED BY InvariantHolds, <1>2, PTL DEF OcwSpec, SettledTruthfully
===============================================================================
