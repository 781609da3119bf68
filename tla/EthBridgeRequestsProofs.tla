------------------------ MODULE EthBridgeRequestsProofs ------------------------
(***************************************************************************)
(* Theorems about EthBridgeRequests for every set of accounts, every       *)
(* family of author lists and every bound.                                 *)
(***************************************************************************)
EXTENDS EthBridgeRequests, TLAPS, SequenceTheorems

\* An Option is a sequence: Some(x) has one element, x.
LEMMA SomeProperties ==
    ASSUME NEW S, NEW x \in S
    PROVE  /\ Some(x) \in Seq(S)
           /\ Len(Some(x)) = 1
           /\ DOMAIN Some(x) = {1}
           /\ Some(x)[1] = x
           /\ Some(x) # None
BY DEF Some, None

\* The next sender is one of the validators (advance_primary).
LEMMA SenderProperties ==
    ASSUME NEW index \in Nat, NEW len \in Nat \ {0}
    PROVE  advance_primary(index, len) \in 0..(len - 1)
BY DEF advance_primary

\* The part of TypeOK that is about the active request.
ActiveOK ==
    /\ active \in Seq(ActiveRequestData)
    /\ Len(active) <= 1
    /\ \A i \in DOMAIN active :
          Len(active[i].tx_data) = IF active[i].request.kind = "Send" THEN 1 ELSE 0

\* An active request that was just set up: nobody has voted on it.
Fresh(a) ==
    /\ a.confirmations = <<>>
    /\ \A j \in DOMAIN a.tx_data :
          /\ a.tx_data[j].success_corroborations = <<>>
          /\ a.tx_data[j].failure_corroborations = <<>>
          /\ a.tx_data[j].valid_tx_hash_corroborations = <<>>
          /\ a.tx_data[j].invalid_tx_hash_corroborations = <<>>

\* The state after request r has been made active.
SetUpFor(r) ==
    /\ ActiveOK'
    /\ Len(active') = 1 /\ DOMAIN active' = {1} /\ active' # <<>>
    /\ active'[1].request = r
    /\ Fresh(active'[1])
    /\ setups' \in Nat
    /\ primary' \in Nat

\* Storing an active request of the right type.
LEMMA StoreActive ==
    ASSUME NEW a \in ActiveRequestData, active' = Some(a),
           Len(a.tx_data) = IF a.request.kind = "Send" THEN 1 ELSE 0
    PROVE  /\ ActiveOK'
           /\ Len(active') = 1 /\ DOMAIN active' = {1} /\ active' # <<>>
           /\ active'[1] = a
<1>1. /\ Some(a) \in Seq(ActiveRequestData) /\ Len(Some(a)) = 1
      /\ DOMAIN Some(a) = {1} /\ Some(a)[1] = a /\ Some(a) # <<>>
  BY SomeProperties DEF None
<1>2. /\ active' \in Seq(ActiveRequestData) /\ Len(active') = 1
      /\ DOMAIN active' = {1} /\ active'[1] = a /\ active' # <<>>
  BY <1>1
<1>3. Len(active') <= 1
  BY <1>2
<1>4. \A i \in DOMAIN active' :
          Len(active'[i].tx_data) = IF active'[i].request.kind = "Send" THEN 1 ELSE 0
  BY <1>2
<1> QED BY <1>2, <1>3, <1>4 DEF ActiveOK

\* set_up_active_tx makes the request it is given active, without votes.
LEMMA SetUpSend ==
    ASSUME TypeOK, NEW r \in Request, r.kind = "Send", validators # <<>>,
           NEW replay \in Nat, NEW inst \in Instances,
           set_up_active_tx(r, replay, inst)
    PROVE  SetUpFor(r)
<1> DEFINE index == advance_primary(primary, Len(validators))
           deadline == setups + 1
           tx == [sender |-> validators[index + 1],
                  expiry |-> deadline,
                  eth_tx_hash |-> ZeroHash,
                  success_corroborations |-> <<>>,
                  failure_corroborations |-> <<>>,
                  valid_tx_hash_corroborations |-> <<>>,
                  invalid_tx_hash_corroborations |-> <<>>,
                  replay_attempt |-> replay]
           a == [request |-> r, msg_hash |-> msg_hash(r, deadline, inst),
                 confirmations |-> <<>>, tx_data |-> Some(tx)]
<1>1. deadline \in Nat /\ index \in 0..(Len(validators) - 1) /\ index \in Nat
  <2>1. Len(validators) \in Nat \ {0} /\ primary \in Nat /\ setups \in Nat
    BY EmptySeq DEF TypeOK
  <2>2. index \in 0..(Len(validators) - 1)
    BY <2>1, SenderProperties
  <2> QED BY <2>1, <2>2
<1>2. setups' = deadline /\ primary' = index /\ active' = Some(a)
  BY DEF set_up_active_tx
<1>3. validators[index + 1] \in Accounts
  BY <1>1 DEF TypeOK
<1> HIDE DEF index, deadline
<1>4. tx \in ActiveEthTransaction
  BY <1>1, <1>3, EmptySeq DEF ActiveEthTransaction, ZeroHash
<1>5. /\ Some(tx) \in Seq(ActiveEthTransaction) /\ Len(Some(tx)) = 1
      /\ DOMAIN Some(tx) = {1} /\ Some(tx)[1] = tx
  BY <1>4, SomeProperties
<1>6. msg_hash(r, deadline, inst) \in MsgHash
  BY <1>1 DEF msg_hash, MsgHash
<1>7. a \in ActiveRequestData
  <2> HIDE DEF tx
  <2> QED BY <1>5, <1>6, EmptySeq DEF ActiveRequestData
<1>8. Fresh(a)
  BY <1>5 DEF Fresh
<1>9. a.request = r /\ Len(a.tx_data) = 1
  BY <1>5
<1> HIDE DEF a
<1> QED BY <1>1, <1>2, <1>7, <1>8, <1>9, StoreActive DEF SetUpFor

\* So does set_up, for both kinds of request.
LEMMA SetUp ==
    ASSUME TypeOK, NEW r \in Request, can_set_up(r), set_up(r)
    PROVE  SetUpFor(r)
<1>1. CASE r.kind = "Send"
  BY <1>1, SetUpSend DEF set_up, can_set_up, TypeOK
<1>2. CASE r.kind # "Send"
  <2> DEFINE a == [request |-> r, msg_hash |-> msg_hash(r, 0, instance),
                   confirmations |-> <<>>, tx_data |-> None]
  <2>1. active' = Some(a) /\ setups' = setups /\ primary' = primary
    BY <1>2 DEF set_up, set_up_active_lower_proof
  <2>2. msg_hash(r, 0, instance) \in MsgHash
    BY DEF msg_hash, MsgHash, TypeOK
  <2>3. a \in ActiveRequestData /\ Fresh(a) /\ a.request = r /\ Len(a.tx_data) = 0
    BY <2>2, EmptySeq DEF ActiveRequestData, Fresh, None
  <2>4. setups' \in Nat /\ primary' \in Nat
    BY <2>1 DEF TypeOK
  <2> HIDE DEF a
  <2> QED BY <1>2, <2>1, <2>3, <2>4, StoreActive DEF SetUpFor
<1> QED BY <1>1, <1>2

\* The state after process_next_request has answered with `result`, told the
\* callers of the first n queued requests that they cannot be set up, and made
\* the one after them active, if there is one.
NextTaken(result, n) ==
    /\ ActiveOK'
    /\ setups' \in Nat
    /\ primary' \in Nat
    /\ notified' \in Seq(Notification)
    /\ queue' \in Seq(Request)
    /\ Len(notified') = Len(notified) + 1 + n
    /\ \A i \in 1..Len(notified) : notified'[i] = notified[i]
    /\ notified'[Len(notified) + 1] = result
    /\ \A i \in 1..n :
          /\ notified'[Len(notified) + 1 + i].request = queue[i]
          /\ notified'[Len(notified) + 1 + i].why = "setup_failed"
    /\ Len(active') + Len(queue') + n = Len(queue)
    /\ \A i \in 1..Len(active') : active'[i].request = queue[n + i]
    /\ \A i \in 1..Len(queue') : queue'[i] = queue[n + Len(active') + i]
    /\ active' = None => queue' = <<>>
    /\ \A i \in DOMAIN active' : Fresh(active'[i])

\* process_next_request answers the finished request and keeps the order of the
\* others.
LEMMA ProcessNext ==
    ASSUME TypeOK, NEW result \in Notification, process_next_request(result)
    PROVE  \E n \in 0..Len(queue) : NextTaken(result, n)
<1>1. PICK k \in 1..(Len(queue) + 1) :
        /\ \A i \in 1..(k - 1) : ~can_set_up(queue[i])
        /\ notified' = Append(notified, result)
                        \o [i \in 1..(k - 1) |-> Notify(queue[i], FALSE, "setup_failed")]
        /\ queue' = SubSeq(queue, k + 1, Len(queue))
        /\ IF k > Len(queue)
           THEN active' = None /\ UNCHANGED <<setups, primary>>
           ELSE can_set_up(queue[k]) /\ set_up(queue[k])
  BY DEF process_next_request
<1> DEFINE n == k - 1
           skipped == [i \in 1..n |-> Notify(queue[i], FALSE, "setup_failed")]
           told == Append(notified, result)
<1>2. /\ Len(queue) \in Nat /\ Len(notified) \in Nat /\ queue \in Seq(Request)
      /\ notified \in Seq(Notification)
  BY DEF TypeOK
<1>3. n \in 0..Len(queue) /\ k \in Nat /\ n \in Nat
  BY <1>1, <1>2
<1>4. \A i \in 1..Len(queue) : queue[i] \in Request
  BY <1>2, ElementOfSeq
<1>5. skipped \in Seq(Notification) /\ Len(skipped) = n
  <2>1. \A i \in 1..n : Notify(queue[i], FALSE, "setup_failed") \in Notification
    BY <1>2, <1>3, <1>4 DEF Notify, Notification
  <2>2. skipped \in [1..n -> Notification]
    BY <2>1
  <2> HIDE DEF skipped, n
  <2> QED BY <2>2, <1>3
<1>6. \A i \in 1..n : skipped[i].request = queue[i] /\ skipped[i].why = "setup_failed"
  BY DEF Notify
<1>7. /\ told \in Seq(Notification) /\ Len(told) = Len(notified) + 1
      /\ \A i \in 1..Len(notified) : told[i] = notified[i]
      /\ told[Len(notified) + 1] = result
  BY <1>2, AppendProperties
<1>8. notified' = told \o skipped
  BY <1>1
<1> HIDE DEF skipped, told
<1>9. /\ notified' \in Seq(Notification)
      /\ Len(notified') = Len(notified) + 1 + n
      /\ \A i \in 1..(Len(notified) + 1) : notified'[i] = told[i]
      /\ \A i \in 1..n : notified'[Len(notified) + 1 + i] = skipped[i]
  <2> HIDE DEF n
  <2>1. /\ notified' \in Seq(Notification)
        /\ Len(notified') = Len(told) + Len(skipped)
        /\ \A i \in 1..(Len(told) + Len(skipped)) : notified'[i] =
               IF i <= Len(told) THEN told[i] ELSE skipped[i - Len(told)]
    <3>1. told \in Seq(Notification) /\ skipped \in Seq(Notification)
      BY <1>5, <1>7
    <3> QED BY <3>1, <1>8, ConcatProperties
  <2>2. /\ Len(told) = Len(notified) + 1 /\ Len(skipped) = n
        /\ n \in Nat /\ Len(notified) \in Nat
    BY <1>2, <1>3, <1>5, <1>7
  <2>3. ASSUME NEW i \in 1..(Len(notified) + 1) PROVE notified'[i] = told[i]
    <3>1. i \in 1..(Len(told) + Len(skipped)) /\ i <= Len(told)
      BY <2>2
    <3> QED BY <2>1, <3>1
  <2>4. ASSUME NEW i \in 1..n PROVE notified'[Len(notified) + 1 + i] = skipped[i]
    <3>1. /\ Len(notified) + 1 + i \in 1..(Len(told) + Len(skipped))
          /\ ~(Len(notified) + 1 + i <= Len(told))
          /\ (Len(notified) + 1 + i) - Len(told) = i
      BY <2>2
    <3> QED BY <2>1, <3>1
  <2> QED BY <2>1, <2>2, <2>3, <2>4
<1>10. /\ queue' \in Seq(Request)
       /\ Len(queue') = IF k + 1 <= Len(queue) THEN Len(queue) - k ELSE 0
       /\ \A i \in 1..(Len(queue) - k) : queue'[i] = queue[k + i]
  <2>1. \A i \in (k + 1)..Len(queue) : queue[i] \in Request
    BY <1>2, <1>3, <1>4
  <2>2. k + 1 \in Int /\ Len(queue) \in Int
    BY <1>2, <1>3
  <2>3. /\ SubSeq(queue, k + 1, Len(queue)) \in Seq(Request)
        /\ Len(SubSeq(queue, k + 1, Len(queue))) =
              IF k + 1 <= Len(queue) THEN Len(queue) - (k + 1) + 1 ELSE 0
        /\ \A i \in 1..(Len(queue) - (k + 1) + 1) :
              SubSeq(queue, k + 1, Len(queue))[i] = queue[(k + 1) + i - 1]
    BY <2>1, <2>2, SubSeqProperties
  <2>4. queue' = SubSeq(queue, k + 1, Len(queue))
    BY <1>1
  <2>5. /\ Len(queue) \in Nat /\ k \in Nat
        /\ Len(queue) - (k + 1) + 1 = Len(queue) - k
    BY <1>2, <1>3
  <2>6. queue' \in Seq(Request)
        /\ Len(queue') = IF k + 1 <= Len(queue) THEN Len(queue) - k ELSE 0
    BY <2>3, <2>4, <2>5
  <2>7. ASSUME NEW i \in 1..(Len(queue) - k) PROVE queue'[i] = queue[k + i]
    <3>1. i \in 1..(Len(queue) - (k + 1) + 1) /\ (k + 1) + i - 1 = k + i
      BY <2>5
    <3> QED BY <2>3, <2>4, <3>1
  <2> QED BY <2>6, <2>7
<1>11. notified'[Len(notified) + 1] = result
       /\ \A i \in 1..Len(notified) : notified'[i] = notified[i]
  BY <1>2, <1>7, <1>9
<1>12. \A i \in 1..n :
          /\ notified'[Len(notified) + 1 + i].request = queue[i]
          /\ notified'[Len(notified) + 1 + i].why = "setup_failed"
  BY <1>6, <1>9
<1>13. CASE k > Len(queue)
  <2>1. active' = <<>> /\ setups' = setups /\ primary' = primary
    BY <1>1, <1>13 DEF None
  <2>2. ActiveOK' /\ setups' \in Nat /\ primary' \in Nat
    BY <2>1, EmptySeq DEF ActiveOK, TypeOK
  <2>3. Len(queue') = 0 /\ queue' = <<>> /\ n = Len(queue) /\ Len(active') = 0
    BY <1>2, <1>3, <1>10, <1>13, <2>1, EmptySeq
  <2>4. /\ \A i \in 1..Len(active') : active'[i].request = queue[n + i]
        /\ \A i \in 1..Len(queue') : queue'[i] = queue[n + Len(active') + i]
        /\ \A i \in DOMAIN active' : Fresh(active'[i])
    BY <2>1, <2>3
  <2> HIDE DEF n
  <2>5. Len(active') + Len(queue') + n = Len(queue)
    BY <1>2, <1>3, <2>3
  <2>6. active' = None => queue' = <<>>
    BY <2>3
  <2>7. NextTaken(result, n)
    BY <1>9, <1>10, <1>11, <1>12, <2>2, <2>4, <2>5, <2>6 DEF NextTaken
  <2> QED BY <1>3, <2>7
<1>14. CASE ~(k > Len(queue))
  <2>1. k \in 1..Len(queue) /\ queue[k] \in Request /\ can_set_up(queue[k]) /\ set_up(queue[k])
    BY <1>1, <1>2, <1>3, <1>4, <1>14
  <2>2. SetUpFor(queue[k])
    BY <2>1, SetUp
  <2>3. /\ ActiveOK' /\ setups' \in Nat /\ primary' \in Nat /\ Len(active') = 1
        /\ active'[1].request = queue[k] /\ Fresh(active'[1])
        /\ DOMAIN active' = {1} /\ active' # <<>>
    BY <2>2 DEF SetUpFor
  <2>4. Len(active') + Len(queue') + n = Len(queue)
    BY <1>2, <1>3, <1>10, <2>1, <2>3
  <2>5. /\ \A i \in 1..Len(active') : active'[i].request = queue[n + i]
        /\ \A i \in DOMAIN active' : Fresh(active'[i])
    BY <1>3, <2>3
  <2>6. ASSUME NEW i \in 1..Len(queue') PROVE queue'[i] = queue[n + Len(active') + i]
    <3>1. Len(queue') \in Nat /\ Len(queue') = Len(queue) - k /\ n + Len(active') = k
      <4>1. Len(queue') = IF k + 1 <= Len(queue) THEN Len(queue) - k ELSE 0
        BY <1>10
      <4>2. Len(queue) \in Nat /\ k \in 1..Len(queue)
        BY <1>2, <2>1
      <4>3. n + Len(active') = k
        BY <1>3, <2>3, <4>2
      <4> QED BY <4>1, <4>2, <4>3
    <3>2. i \in 1..(Len(queue) - k)
      BY <3>1
    <3>3. queue'[i] = queue[k + i]
      BY <1>10, <3>2
    <3> QED BY <3>1, <3>3
  <2> HIDE DEF n
  <2>7. NextTaken(result, n)
    BY <1>2, <1>3, <1>9, <1>10, <1>11, <1>12, <2>3, <2>4, <2>5, <2>6 DEF NextTaken, None
  <2> QED BY <1>3, <2>7
<1> QED BY <1>13, <1>14
-------------------------------------------------------------------------------
(* Every step accepts a request, answers the active one, or does neither.  *)

Accepts(r) ==
    /\ accepted' = Append(accepted, r)
    /\ notified' = notified
    /\ \/ active # None /\ queue' = Append(queue, r) /\ active' = active
       \/ active = None /\ queue' = queue /\ SetUpFor(r)

Answers(result) ==
    /\ accepted' = accepted
    /\ active # None
    /\ result.request = active[1].request
    /\ \E n \in 0..Len(queue) : NextTaken(result, n)

KeepsOrder ==
    /\ UNCHANGED <<accepted, notified, queue>>
    /\ Len(active') = Len(active)
    /\ \A i \in 1..Len(active) : active'[i].request = active[i].request

Shape ==
    \/ \E r \in Request : Accepts(r)
    \/ \E result \in Notification : Answers(result)
    \/ KeepsOrder

\* A non-empty Option holds one value.
LEMMA AtMostOne ==
    ASSUME NEW n \in Nat, n # 0, n <= 1
    PROVE  n = 1
OBVIOUS

\* What TypeOK says of an active request.
LEMMA ActiveFacts ==
    ASSUME TypeOK, active # None
    PROVE  /\ Len(active) = 1 /\ DOMAIN active = {1}
           /\ active[1] \in ActiveRequestData
           /\ Len(active[1].tx_data) = IF active[1].request.kind = "Send" THEN 1 ELSE 0
<1>1. active \in Seq(ActiveRequestData) /\ Len(active) <= 1
  BY DEF TypeOK
<1>2. Len(active) = 1 /\ DOMAIN active = 1..1
  <2>1. Len(active) \in Nat /\ Len(active) # 0 /\ Len(active) <= 1
    BY <1>1, EmptySeq DEF None
  <2>2. Len(active) = 1
    BY <2>1, AtMostOne
  <2>3. DOMAIN active = 1..Len(active)
    BY <1>1, LenProperties
  <2> QED BY <2>2, <2>3
<1>3. active[1] \in ActiveRequestData
  <2>1. 1 \in 1..Len(active)
    BY <1>2
  <2> QED BY <1>1, <2>1, ElementOfSeq
<1> QED BY <1>2, <1>3 DEF TypeOK

\* What TypeOK says of an active transaction.
LEMMA TxFacts ==
    ASSUME TypeOK, active # None, active[1].tx_data # None
    PROVE  /\ active[1].request.kind = "Send"
           /\ Len(active[1].tx_data) = 1 /\ DOMAIN active[1].tx_data = {1}
           /\ active[1].tx_data[1] \in ActiveEthTransaction
<1>1. active[1] \in ActiveRequestData
      /\ Len(active[1].tx_data) = IF active[1].request.kind = "Send" THEN 1 ELSE 0
  BY ActiveFacts
<1>2. active[1].tx_data \in Seq(ActiveEthTransaction)
  BY <1>1 DEF ActiveRequestData
<1>3. Len(active[1].tx_data) = 1 /\ active[1].request.kind = "Send"
  BY <1>1, <1>2, EmptySeq DEF None
<1>4. DOMAIN active[1].tx_data = 1..1
  BY <1>2, <1>3, LenProperties
<1>5. active[1].tx_data[1] \in ActiveEthTransaction
  <2>1. 1 \in 1..Len(active[1].tx_data)
    BY <1>3
  <2> QED BY <1>2, <2>1, ElementOfSeq
<1> QED BY <1>3, <1>4, <1>5

\* Saving the active request with other transaction data keeps its type.
LEMMA WithTxData ==
    ASSUME TypeOK, active # None, active[1].tx_data # None,
           NEW t \in ActiveEthTransaction, active' = with_tx_data(active[1], t)
    PROVE  /\ ActiveOK'
           /\ Len(active') = 1 /\ DOMAIN active' = {1}
           /\ active'[1] = [active[1] EXCEPT !.tx_data = Some(t)]
           /\ active'[1].request = active[1].request
           /\ DOMAIN active'[1].tx_data = {1} /\ active'[1].tx_data[1] = t
<1> DEFINE a == [active[1] EXCEPT !.tx_data = Some(t)]
<1>1. active[1] \in ActiveRequestData /\ active[1].request.kind = "Send"
  BY ActiveFacts, TxFacts
<1>2. /\ Some(t) \in Seq(ActiveEthTransaction) /\ Len(Some(t)) = 1
      /\ DOMAIN Some(t) = {1} /\ Some(t)[1] = t
  BY SomeProperties
<1>3. /\ a \in ActiveRequestData /\ a.tx_data = Some(t)
      /\ a.request = active[1].request
  BY <1>1, <1>2 DEF ActiveRequestData
<1>4. active' = Some(a)
  BY DEF with_tx_data
<1>5. a.request.kind = "Send" /\ Len(a.tx_data) = 1
  BY <1>1, <1>2, <1>3
<1> HIDE DEF a
<1>6. /\ ActiveOK' /\ Len(active') = 1 /\ DOMAIN active' = {1} /\ active'[1] = a
  BY <1>3, <1>4, <1>5, StoreActive
<1> QED BY <1>2, <1>3, <1>6 DEF a


\* The type of what most steps leave alone.
OutcomesOK ==
    /\ DOMAIN settled \subseteq Nat
    /\ \A id \in DOMAIN settled : settled[id] \in TransactionData
    /\ offenders \subseteq Accounts

\* add_new_send_request and add_new_lower_proof_request.
LEMMA AcceptStep ==
    ASSUME TypeOK, NEW r \in Request, add_new_request(r), nextTxId' \in Nat
    PROVE  TypeOK' /\ Accepts(r)
<1>1. /\ accepted' = Append(accepted, r) /\ notified' = notified
      /\ UNCHANGED <<validators, settled, instance, offenders>>
  BY DEF add_new_request
<1>2. accepted' \in Seq(Request)
  BY <1>1, AppendProperties DEF TypeOK
<1>3. CASE active # None
  <2>1. queue' = Append(queue, r) /\ UNCHANGED <<active, setups, primary>>
    BY <1>3 DEF add_new_request
  <2>2. queue' \in Seq(Request)
    BY <2>1, AppendProperties DEF TypeOK
  <2>3. TypeOK'
    BY <1>1, <1>2, <2>1, <2>2 DEF TypeOK
  <2> QED BY <1>1, <1>3, <2>1, <2>3 DEF Accepts
<1>4. CASE active = None
  <2>1. queue' = queue /\ can_set_up(r) /\ set_up(r)
    BY <1>4 DEF add_new_request
  <2>2. SetUpFor(r)
    BY <2>1, SetUp
  <2>3. ActiveOK' /\ setups' \in Nat /\ primary' \in Nat
    BY <2>2 DEF SetUpFor
  <2>4. TypeOK'
    BY <1>1, <1>2, <2>1, <2>3 DEF TypeOK, ActiveOK
  <2> QED BY <1>1, <1>4, <2>1, <2>2, <2>4 DEF Accepts
<1> QED BY <1>3, <1>4

\* Every way of finishing the active request.
LEMMA AnswerStep ==
    ASSUME TypeOK, active # None, NEW result \in Notification,
           result.request = active[1].request, process_next_request(result),
           UNCHANGED <<validators, nextTxId, instance, accepted>>, OutcomesOK'
    PROVE  TypeOK' /\ Answers(result)
<1>1. PICK n \in 0..Len(queue) : NextTaken(result, n)
  BY ProcessNext
<1>2. /\ ActiveOK' /\ setups' \in Nat /\ primary' \in Nat
      /\ notified' \in Seq(Notification) /\ queue' \in Seq(Request)
  BY <1>1 DEF NextTaken
<1>3. TypeOK'
  BY <1>2 DEF TypeOK, ActiveOK, OutcomesOK
<1> QED BY <1>1, <1>3 DEF Answers

\* add_confirmation
LEMMA ConfirmationStep ==
    ASSUME TypeOK, NEW author \in Accounts, NEW id, NEW confirmation,
           add_confirmation(id, confirmation, author)
    PROVE  TypeOK' /\ Shape
<1> DEFINE a == [active[1] EXCEPT !.confirmations = Append(@, confirmation)]
           done == a.request.kind = "LowerProof" /\ has_enough_confirmations(a)
           result == Notify(a.request, TRUE, "proof")
<1>1. active # None /\ confirmation = [signer |-> author, msg |-> active[1].msg_hash]
  BY DEF add_confirmation, confirmation_counts, is_active_request
<1>2. UNCHANGED <<validators, nextTxId, settled, instance, offenders, accepted>>
  BY DEF add_confirmation
<1>3. active[1] \in ActiveRequestData
      /\ Len(active[1].tx_data) = IF active[1].request.kind = "Send" THEN 1 ELSE 0
  BY <1>1, ActiveFacts
<1>4. confirmation \in Signature
  BY <1>1, <1>3 DEF ActiveRequestData, Signature
<1>5. Append(active[1].confirmations, confirmation) \in Seq(Signature)
  BY <1>3, <1>4, AppendProperties DEF ActiveRequestData
<1>6. /\ a \in ActiveRequestData /\ a.request = active[1].request
      /\ a.tx_data = active[1].tx_data
  BY <1>3, <1>5 DEF ActiveRequestData
<1>7. CASE done
  <2>1. process_next_request(result)
    BY <1>7 DEF add_confirmation
  <2>2. result \in Notification /\ result.request = active[1].request
    BY <1>3, <1>6 DEF Notify, Notification, ActiveRequestData
  <2>3. OutcomesOK'
    BY <1>2 DEF TypeOK, OutcomesOK
  <2> HIDE DEF result
  <2> QED BY <1>1, <1>2, <2>1, <2>2, <2>3, AnswerStep DEF Shape
<1>8. CASE ~done
  <2>1. active' = Some(a) /\ UNCHANGED <<queue, notified, setups, primary>>
    BY <1>8 DEF add_confirmation
  <2> HIDE DEF a
  <2>2. ActiveOK' /\ Len(active') = 1 /\ active'[1] = a
    BY <1>3, <1>6, <2>1, StoreActive
  <2>3. TypeOK'
    BY <1>2, <2>1, <2>2 DEF TypeOK, ActiveOK
  <2>4. KeepsOrder
    BY <1>1, <1>2, <1>6, <2>1, <2>2, ActiveFacts DEF KeepsOrder
  <2> QED BY <2>3, <2>4 DEF Shape
<1> QED BY <1>7, <1>8

\* add_eth_tx_hash
LEMMA EthTxHashStep ==
    ASSUME TypeOK, NEW author \in Accounts, NEW id, NEW hash \in EthTxHashes,
           add_eth_tx_hash(id, hash, author)
    PROVE  TypeOK' /\ Shape
<1> DEFINE t == [active[1].tx_data[1] EXCEPT !.eth_tx_hash = hash]
<1>1. active # None /\ active[1].tx_data # None
  BY DEF add_eth_tx_hash, eth_tx_hash_counts, is_active_request
<1>2. /\ active' = with_tx_data(active[1], t)
      /\ UNCHANGED <<validators, primary, nextTxId, queue, settled, instance,
                     offenders, setups, accepted, notified>>
  BY DEF add_eth_tx_hash
<1>3. t \in ActiveEthTransaction
  BY <1>1, TxFacts DEF ActiveEthTransaction
<1> HIDE DEF t
<1>4. ActiveOK' /\ Len(active') = 1 /\ active'[1].request = active[1].request
  BY <1>1, <1>2, <1>3, WithTxData
<1>5. TypeOK'
  BY <1>2, <1>4 DEF TypeOK, ActiveOK
<1>6. KeepsOrder
  BY <1>1, <1>2, <1>4, ActiveFacts DEF KeepsOrder
<1> QED BY <1>5, <1>6 DEF Shape

\* The transaction data after a corroboration of `author` has been recorded.
Recorded(before, succeeded, hash_is_valid, author) ==
    LET Push(list, cond) == IF cond THEN Append(list, author) ELSE list
    IN  [before EXCEPT
           !.success_corroborations = Push(@, succeeded),
           !.failure_corroborations = Push(@, ~succeeded),
           !.valid_tx_hash_corroborations = Push(@, hash_is_valid),
           !.invalid_tx_hash_corroborations = Push(@, ~hash_is_valid)]

\* Recording a corroboration keeps the type of the transaction data and touches
\* nothing but the four lists.
LEMMA RecordedProperties ==
    ASSUME NEW before \in ActiveEthTransaction, NEW author \in Accounts,
           NEW succeeded \in BOOLEAN, NEW hash_is_valid \in BOOLEAN,
           NEW t, t = Recorded(before, succeeded, hash_is_valid, author)
    PROVE  /\ t \in ActiveEthTransaction
           /\ t.sender = before.sender
           /\ t.replay_attempt = before.replay_attempt
           /\ t.eth_tx_hash = before.eth_tx_hash
           /\ t.success_corroborations =
                 IF succeeded THEN Append(before.success_corroborations, author)
                              ELSE before.success_corroborations
           /\ t.failure_corroborations =
                 IF ~succeeded THEN Append(before.failure_corroborations, author)
                               ELSE before.failure_corroborations
           /\ t.valid_tx_hash_corroborations =
                 IF hash_is_valid THEN Append(before.valid_tx_hash_corroborations, author)
                                  ELSE before.valid_tx_hash_corroborations
           /\ t.invalid_tx_hash_corroborations =
                 IF ~hash_is_valid THEN Append(before.invalid_tx_hash_corroborations, author)
                                   ELSE before.invalid_tx_hash_corroborations
<1>1. /\ Append(before.success_corroborations, author) \in Seq(Accounts)
      /\ Append(before.failure_corroborations, author) \in Seq(Accounts)
      /\ Append(before.valid_tx_hash_corroborations, author) \in Seq(Accounts)
      /\ Append(before.invalid_tx_hash_corroborations, author) \in Seq(Accounts)
  BY AppendProperties DEF ActiveEthTransaction
<1> QED BY <1>1 DEF Recorded, ActiveEthTransaction

\* complete_transaction
LEMMA CompleteStep ==
    ASSUME TypeOK, active # None, active[1].tx_data # None,
           NEW t \in ActiveEthTransaction, NEW success \in BOOLEAN,
           complete_transaction(active[1].request, t, success),
           UNCHANGED <<validators, nextTxId, instance, accepted>>
    PROVE  TypeOK' /\ Answers(Notify(active[1].request, success, "settled"))
<1> DEFINE r == active[1].request
           losers == IF success THEN t.failure_corroborations
                                ELSE t.success_corroborations
           hash == IF success /\ has_enough_corroborations(
                                   Len(t.invalid_tx_hash_corroborations))
                   THEN ZeroHash ELSE t.eth_tx_hash
           data == [sender |-> t.sender, eth_tx_hash |-> hash,
                    tx_succeeded |-> success]
           result == Notify(r, success, "settled")
<1>1. /\ offenders' = offenders \cup {losers[i] : i \in DOMAIN losers}
      /\ settled' = [id \in DOMAIN settled \cup {r.id} |->
                        IF id = r.id THEN data ELSE settled[id]]
      /\ process_next_request(result)
  BY DEF complete_transaction
<1>2. r \in Request /\ r.id \in Nat
  BY ActiveFacts DEF ActiveRequestData, Request
<1>3. result \in Notification /\ result.request = r
  BY <1>2 DEF Notify, Notification
<1>4. data \in TransactionData
  BY DEF TransactionData, ActiveEthTransaction
<1>5. losers \in Seq(Accounts)
  BY DEF ActiveEthTransaction
<1>6. OutcomesOK'
  <2> HIDE DEF data, losers, r
  <2>1. DOMAIN settled' \subseteq Nat
    BY <1>1, <1>2 DEF TypeOK
  <2>2. \A id \in DOMAIN settled' : settled'[id] \in TransactionData
    BY <1>1, <1>4 DEF TypeOK
  <2>3. offenders' \subseteq Accounts
    <3>1. \A i \in DOMAIN losers : losers[i] \in Accounts
      BY <1>5, LenProperties, ElementOfSeq
    <3> QED BY <1>1, <3>1 DEF TypeOK
  <2> QED BY <2>1, <2>2, <2>3 DEF OutcomesOK
<1> HIDE DEF result
<1> QED BY <1>1, <1>3, <1>6, AnswerStep DEF result

\* add_corroboration: the three things that it may do.
LEMMA CorroborationStep ==
    ASSUME TypeOK, NEW author \in Accounts, NEW id,
           NEW succeeded \in BOOLEAN, NEW hash_is_valid \in BOOLEAN, NEW replay_attempt,
           add_corroboration(id, succeeded, hash_is_valid, author, replay_attempt)
    PROVE  TypeOK' /\ Shape
<1> DEFINE r == active[1].request
           t == Recorded(active[1].tx_data[1], succeeded, hash_is_valid, author)
           matching == IF succeeded THEN t.success_corroborations
                                    ELSE t.failure_corroborations
<1>1. active # None /\ active[1].tx_data # None
  BY DEF add_corroboration, corroboration_counts, is_active_request
<1>2. /\ IF has_enough_corroborations(Len(matching))
         THEN finalize_state(r, t, succeeded)
         ELSE /\ active' = with_tx_data(active[1], t)
              /\ UNCHANGED <<queue, settled, offenders, setups, primary, notified>>
      /\ UNCHANGED <<validators, nextTxId, instance, accepted>>
  BY DEF add_corroboration, Recorded
<1>3. t \in ActiveEthTransaction /\ t.replay_attempt = active[1].tx_data[1].replay_attempt
  BY <1>1, TxFacts, RecordedProperties
<1>4. r \in Request /\ r.kind = "Send" /\ t.replay_attempt \in Nat
  BY <1>1, <1>3, ActiveFacts, TxFacts DEF ActiveRequestData, ActiveEthTransaction
<1> HIDE DEF t
<1>5. CASE ~has_enough_corroborations(Len(matching))
  <2>1. /\ active' = with_tx_data(active[1], t)
        /\ UNCHANGED <<queue, settled, offenders, setups, primary, notified>>
    BY <1>2, <1>5
  <2>2. ActiveOK' /\ Len(active') = 1 /\ active'[1].request = active[1].request
    BY <1>1, <1>3, <2>1, WithTxData
  <2>3. TypeOK'
    BY <1>2, <2>1, <2>2 DEF TypeOK, ActiveOK
  <2>4. KeepsOrder
    BY <1>1, <1>2, <2>1, <2>2, ActiveFacts DEF KeepsOrder
  <2> QED BY <2>3, <2>4 DEF Shape
<1>6. CASE has_enough_corroborations(Len(matching))
  <2> DEFINE replay == ~succeeded /\ has_enough_corroborations(
                                        Len(t.invalid_tx_hash_corroborations))
  <2>1. finalize_state(r, t, succeeded)
    BY <1>2, <1>6
  <2>2. CASE replay
    <3>1. /\ can_set_up(r) /\ set_up_active_tx(r, t.replay_attempt + 1, instance)
          /\ UNCHANGED <<queue, settled, offenders, notified>>
      BY <2>1, <2>2 DEF finalize_state
    <3>2. validators # <<>> /\ instance \in Instances /\ t.replay_attempt + 1 \in Nat
      BY <1>4, <3>1 DEF can_set_up, TypeOK
    <3>3. SetUpFor(r)
      <4> HIDE DEF r
      <4> QED BY <1>4, <3>1, <3>2, SetUpSend
    <3>4. /\ ActiveOK' /\ Len(active') = 1 /\ active'[1].request = r
          /\ setups' \in Nat /\ primary' \in Nat
      BY <3>3 DEF SetUpFor
    <3>5. TypeOK'
      BY <1>2, <3>1, <3>4 DEF TypeOK, ActiveOK
    <3>6. KeepsOrder
      <4>1. \A i \in 1..1 : active'[i].request = active[i].request
        BY <3>4
      <4>2. Len(active) = 1
        BY <1>1, ActiveFacts
      <4> QED BY <1>2, <3>1, <3>4, <4>1, <4>2 DEF KeepsOrder
    <3> QED BY <3>5, <3>6 DEF Shape
  <2>3. CASE ~replay
    <3>1. complete_transaction(r, t, succeeded)
      BY <2>1, <2>3 DEF finalize_state
    <3>2. TypeOK' /\ Answers(Notify(r, succeeded, "settled"))
      BY <1>1, <1>2, <1>3, <3>1, CompleteStep
    <3>3. Notify(r, succeeded, "settled") \in Notification
      BY <1>4 DEF Notify, Notification
    <3> QED BY <3>2, <3>3 DEF Shape
  <2> QED BY <2>2, <2>3
<1> QED BY <1>5, <1>6

\* RemoveActiveRequest
LEMMA RemoveStep ==
    ASSUME TypeOK, RemoveActiveRequest
    PROVE  TypeOK' /\ Shape
<1> DEFINE result == Notify(active[1].request, FALSE, "removed")
<1>1. /\ active # None /\ process_next_request(result)
      /\ UNCHANGED <<validators, nextTxId, settled, instance, offenders, accepted>>
  BY DEF RemoveActiveRequest
<1>2. result \in Notification /\ result.request = active[1].request
  BY <1>1, ActiveFacts DEF Notify, Notification, ActiveRequestData
<1>3. OutcomesOK'
  BY <1>1 DEF TypeOK, OutcomesOK
<1> HIDE DEF result
<1> QED BY <1>1, <1>2, <1>3, AnswerStep DEF Shape

\* SetEthBridgeInstance
LEMMA InstanceStep ==
    ASSUME TypeOK, NEW i \in Instances, SetEthBridgeInstance(i)
    PROVE  TypeOK' /\ Shape
<1>1. /\ instance' = i
      /\ UNCHANGED <<validators, nextTxId, queue, settled, offenders, accepted, notified>>
  BY DEF SetEthBridgeInstance
<1>2. CASE active # None /\ active[1].request.kind = "Send"
  <2> DEFINE r == active[1].request
  <2>1. can_set_up(r) /\ set_up_active_tx(r, 0, i)
    BY <1>2 DEF SetEthBridgeInstance
  <2>2. r \in Request /\ r.kind = "Send" /\ validators # <<>>
    BY <1>2, <2>1, ActiveFacts DEF can_set_up, ActiveRequestData
  <2>3. SetUpFor(r)
    <3> HIDE DEF r
    <3> QED BY <2>1, <2>2, SetUpSend
  <2>4. /\ ActiveOK' /\ Len(active') = 1 /\ active'[1].request = r
        /\ setups' \in Nat /\ primary' \in Nat
    BY <2>3 DEF SetUpFor
  <2>5. TypeOK'
    BY <1>1, <2>4 DEF TypeOK, ActiveOK
  <2>6. KeepsOrder
    <3>1. \A j \in 1..1 : active'[j].request = active[j].request
      BY <2>4
    <3>2. Len(active) = 1
      BY <1>2, ActiveFacts
    <3> QED BY <1>1, <2>4, <3>1, <3>2 DEF KeepsOrder
  <2> QED BY <2>5, <2>6 DEF Shape
<1>3. CASE ~(active # None /\ active[1].request.kind = "Send")
  <2>1. UNCHANGED <<active, setups, primary>>
    BY <1>3 DEF SetEthBridgeInstance
  <2> QED BY <1>1, <2>1 DEF TypeOK, Shape, KeepsOrder
<1> QED BY <1>2, <1>3

\* A step keeps the types and has one of the three shapes.
LEMMA StepShape ==
    ASSUME TypeOK, [Next]_vars
    PROVE  TypeOK' /\ Shape
<1>1. ASSUME NEW n \in ParamCounts, publish(n) PROVE TypeOK' /\ Shape
  <2> DEFINE r == [kind |-> "Send", id |-> nextTxId, nparams |-> n]
  <2>1. r \in Request /\ nextTxId' \in Nat /\ add_new_request(r)
    BY <1>1, IdsAssumption DEF publish, Request, TypeOK
  <2> HIDE DEF r
  <2> QED BY <2>1, AcceptStep DEF Shape
<1>2. ASSUME NEW id \in LowerIds, generate_lower_proof(id) PROVE TypeOK' /\ Shape
  <2> DEFINE r == [kind |-> "LowerProof", id |-> id, nparams |-> 0]
  <2>1. r \in Request /\ nextTxId' \in Nat /\ add_new_request(r)
    BY <1>2, IdsAssumption DEF generate_lower_proof, Request, TypeOK
  <2> HIDE DEF r
  <2> QED BY <2>1, AcceptStep DEF Shape
<1>3. ASSUME NEW author \in Accounts, AuthorCall(author) PROVE TypeOK' /\ Shape
  BY <1>3, ConfirmationStep, EthTxHashStep, CorroborationStep DEF AuthorCall
<1>4. CASE RemoveActiveRequest
  BY <1>4, RemoveStep
<1>5. ASSUME NEW id \in AdminTxIds, SetEthereumTransactionId(id) PROVE TypeOK' /\ Shape
  BY <1>5, IdsAssumption DEF SetEthereumTransactionId, TypeOK, Shape, KeepsOrder
<1>6. ASSUME NEW i \in Instances, SetEthBridgeInstance(i) PROVE TypeOK' /\ Shape
  BY <1>6, InstanceStep
<1>7. ASSUME NEW vs \in ValidatorSets, NewSession(vs) PROVE TypeOK' /\ Shape
  BY <1>7, ValidatorSetsAssumption DEF NewSession, TypeOK, Shape, KeepsOrder
<1>8. CASE UNCHANGED vars
  BY <1>8 DEF vars, TypeOK, Shape, KeepsOrder
<1> QED BY <1>1, <1>2, <1>3, <1>4, <1>5, <1>6, <1>7, <1>8 DEF Next

\* Initial states are typed.
LEMMA InitType == Init => TypeOK
BY ValidatorSetsAssumption, EmptySeq DEF Init, TypeOK, None

\* The storage items of the bridge keep their types, whatever authors, callers
\* and operators do.
THEOREM TypeCorrect == Spec => []TypeOK
<1>1. TypeOK /\ [Next]_vars => TypeOK'
  BY StepShape
<1> QED BY InitType, <1>1, PTL DEF Spec
-------------------------------------------------------------------------------
(* Exactly once, in order *)

\* Steps of each shape keep the order.
LEMMA OrderStep ==
    ASSUME TypeOK, TypeOK', ExactlyOnceInOrder, Shape
    PROVE  ExactlyOnceInOrder'
<1>0. /\ Len(accepted) \in Nat /\ Len(notified) \in Nat /\ Len(queue) \in Nat
      /\ Len(active) \in Nat
      /\ Len(accepted') \in Nat /\ Len(notified') \in Nat /\ Len(queue') \in Nat
      /\ Len(active') \in Nat
  BY DEF TypeOK
<1>1. ASSUME NEW r \in Request, Accepts(r) PROVE ExactlyOnceInOrder'
  <2>1. /\ accepted' = Append(accepted, r) /\ notified' = notified
        /\ Len(accepted') = Len(accepted) + 1
        /\ \A i \in 1..Len(accepted) : accepted'[i] = accepted[i]
        /\ accepted'[Len(accepted) + 1] = r
    BY <1>1, AppendProperties DEF Accepts, TypeOK
  <2>2. CASE active # None /\ queue' = Append(queue, r) /\ active' = active
    <3>1. /\ Len(queue') = Len(queue) + 1
          /\ \A i \in 1..Len(queue) : queue'[i] = queue[i]
          /\ queue'[Len(queue) + 1] = r
      BY <2>2, AppendProperties DEF TypeOK
    <3>2. Len(accepted') = Len(notified') + Len(active') + Len(queue')
      BY <1>0, <2>1, <2>2, <3>1 DEF ExactlyOnceInOrder
    <3>3. \A i \in 1..Len(notified') : notified'[i].request = accepted'[i]
      BY <1>0, <2>1 DEF ExactlyOnceInOrder
    <3>4. \A i \in 1..Len(active') : active'[i].request = accepted'[Len(notified') + i]
      <4> TAKE i \in 1..Len(active')
      <4>1. active[i].request = accepted[Len(notified) + i]
        BY <2>2 DEF ExactlyOnceInOrder
      <4>2. Len(notified) + i \in 1..Len(accepted)
        BY <1>0, <2>2 DEF ExactlyOnceInOrder
      <4> QED BY <2>1, <2>2, <4>1, <4>2
    <3>5. \A i \in 1..Len(queue') :
             queue'[i] = accepted'[Len(notified') + Len(active') + i]
      <4> TAKE i \in 1..Len(queue')
      <4>1. CASE i \in 1..Len(queue)
        <5>1. queue[i] = accepted[Len(notified) + Len(active) + i]
          BY <4>1 DEF ExactlyOnceInOrder
        <5>2. Len(notified) + Len(active) + i \in 1..Len(accepted)
          BY <1>0, <4>1 DEF ExactlyOnceInOrder
        <5> QED BY <2>1, <2>2, <3>1, <4>1, <5>1, <5>2
      <4>2. CASE i \notin 1..Len(queue)
        <5>1. i = Len(queue) + 1
          BY <1>0, <3>1, <4>2
        <5>2. Len(notified) + Len(active) + i = Len(accepted) + 1
          BY <1>0, <5>1 DEF ExactlyOnceInOrder
        <5> QED BY <2>1, <2>2, <3>1, <5>1, <5>2
      <4> QED BY <4>1, <4>2
    <3> QED BY <2>2, <3>2, <3>3, <3>4, <3>5 DEF ExactlyOnceInOrder
  <2>3. CASE active = None /\ queue' = queue /\ SetUpFor(r)
    <3>1. Len(active') = 1 /\ active'[1].request = r /\ active' # <<>>
      BY <2>3 DEF SetUpFor
    <3>2. Len(active) = 0 /\ Len(queue) = 0
      BY <2>3, EmptySeq DEF ExactlyOnceInOrder, None
    <3>3. Len(accepted) = Len(notified)
      BY <1>0, <3>2 DEF ExactlyOnceInOrder
    <3>4. Len(accepted') = Len(notified') + Len(active') + Len(queue')
      BY <1>0, <2>1, <2>3, <3>1, <3>2, <3>3
    <3>5. \A i \in 1..Len(notified') : notified'[i].request = accepted'[i]
      BY <1>0, <2>1, <3>3 DEF ExactlyOnceInOrder
    <3>6. \A i \in 1..Len(active') : active'[i].request = accepted'[Len(notified') + i]
      <4>1. \A i \in 1..1 : active'[i].request = accepted'[Len(notified') + i]
        BY <2>1, <3>1, <3>3
      <4> QED BY <3>1, <4>1
    <3>7. \A i \in 1..Len(queue') :
             queue'[i] = accepted'[Len(notified') + Len(active') + i]
      BY <2>3, <3>2
    <3>8. ~(active' = None)
      BY <3>1 DEF None
    <3> QED BY <3>4, <3>5, <3>6, <3>7, <3>8 DEF ExactlyOnceInOrder
  <2> QED BY <1>1, <2>2, <2>3 DEF Accepts
<1>2. ASSUME NEW result \in Notification, Answers(result) PROVE ExactlyOnceInOrder'
  <2>1. PICK n \in 0..Len(queue) : NextTaken(result, n)
    BY <1>2 DEF Answers
  <2>2. /\ accepted' = accepted /\ active # None /\ Len(active) = 1
        /\ result.request = active[1].request
    BY <1>2, ActiveFacts DEF Answers
  <2>3. /\ Len(accepted) = Len(notified) + 1 + Len(queue)
        /\ active[1].request = accepted[Len(notified) + 1]
        /\ \A i \in 1..Len(queue) : queue[i] = accepted[Len(notified) + 1 + i]
    BY <2>2 DEF ExactlyOnceInOrder
  <2>4. /\ Len(notified') = Len(notified) + 1 + n
        /\ Len(active') + Len(queue') + n = Len(queue)
    BY <2>1 DEF NextTaken
  <2>5. Len(accepted') = Len(notified') + Len(active') + Len(queue')
    BY <1>0, <2>2, <2>3, <2>4
  <2>6. \A i \in 1..Len(notified') : notified'[i].request = accepted'[i]
    <3>1. \A i \in 1..Len(notified) : notified'[i].request = accepted[i]
      BY <2>1 DEF NextTaken, ExactlyOnceInOrder
    <3>2. notified'[Len(notified) + 1].request = accepted[Len(notified) + 1]
      BY <2>1, <2>2, <2>3 DEF NextTaken
    <3>3. \A i \in 1..n : notified'[Len(notified) + 1 + i].request
                            = accepted[Len(notified) + 1 + i]
      <4> TAKE i \in 1..n
      <4>1. notified'[Len(notified) + 1 + i].request = queue[i]
        BY <2>1 DEF NextTaken
      <4>2. i \in 1..Len(queue)
        BY <1>0, <2>1
      <4> QED BY <2>3, <4>1, <4>2
    <3>4. \A i \in 1..(Len(notified) + 1 + n) :
             \/ i \in 1..Len(notified)
             \/ i = Len(notified) + 1
             \/ \E j \in 1..n : i = Len(notified) + 1 + j
      <4> TAKE i \in 1..(Len(notified) + 1 + n)
      <4>1. CASE i > Len(notified) + 1
        <5>1. i - (Len(notified) + 1) \in 1..n
          BY <1>0, <2>1, <4>1
        <5>2. i = Len(notified) + 1 + (i - (Len(notified) + 1))
          BY <1>0
        <5> QED BY <5>1, <5>2
      <4>2. CASE ~(i > Len(notified) + 1)
        BY <1>0, <4>2
      <4> QED BY <4>1, <4>2
    <3>5. \A i \in 1..(Len(notified) + 1 + n) : notified'[i].request = accepted[i]
      BY <3>1, <3>2, <3>3, <3>4
    <3> QED BY <2>2, <2>4, <3>5
  <2>7. \A i \in 1..Len(active') : active'[i].request = accepted'[Len(notified') + i]
    <3> TAKE i \in 1..Len(active')
    <3>1. active'[i].request = queue[n + i]
      BY <2>1 DEF NextTaken
    <3>2. n + i \in 1..Len(queue)
      BY <1>0, <2>1, <2>4
    <3>3. queue[n + i] = accepted[Len(notified) + 1 + (n + i)]
      BY <2>3, <3>2
    <3>4. Len(notified) + 1 + (n + i) = Len(notified') + i
      BY <1>0, <2>1, <2>4
    <3> QED BY <2>2, <3>1, <3>3, <3>4
  <2>8. \A i \in 1..Len(queue') :
           queue'[i] = accepted'[Len(notified') + Len(active') + i]
    <3> TAKE i \in 1..Len(queue')
    <3>1. queue'[i] = queue[n + Len(active') + i]
      BY <2>1 DEF NextTaken
    <3>2. n + Len(active') + i \in 1..Len(queue)
      BY <1>0, <2>1, <2>4
    <3>3. queue[n + Len(active') + i] = accepted[Len(notified) + 1 + (n + Len(active') + i)]
      BY <2>3, <3>2
    <3>4. Len(notified) + 1 + (n + Len(active') + i) = Len(notified') + Len(active') + i
      BY <1>0, <2>1, <2>4
    <3> QED BY <2>2, <3>1, <3>3, <3>4
  <2>9. active' = None => queue' = <<>>
    BY <2>1 DEF NextTaken
  <2> QED BY <2>5, <2>6, <2>7, <2>8, <2>9 DEF ExactlyOnceInOrder
<1>3. CASE KeepsOrder
  <2>1. /\ accepted' = accepted /\ notified' = notified /\ queue' = queue
        /\ Len(active') = Len(active)
        /\ \A i \in 1..Len(active) : active'[i].request = active[i].request
    BY <1>3 DEF KeepsOrder
  <2>2. active' = None => active = None
    BY <2>1, EmptySeq DEF TypeOK, None
  <2> QED BY <2>1, <2>2 DEF ExactlyOnceInOrder
<1> QED BY <1>1, <1>2, <1>3 DEF Shape

\* Every accepted request is answered at most once, in the order of arrival, and
\* none is lost: the answers, the active request and the queue always add up to
\* what was accepted.
THEOREM InOrder == Spec => []ExactlyOnceInOrder
<1>1. Init => ExactlyOnceInOrder
  BY EmptySeq DEF Init, ExactlyOnceInOrder, None
<1>2. TypeOK /\ ExactlyOnceInOrder /\ [Next]_vars => ExactlyOnceInOrder'
  BY StepShape, OrderStep
<1> QED BY TypeCorrect, <1>1, <1>2, PTL DEF Spec

\* Steps of each shape are steps of the promise.
LEMMA PromiseStep ==
    ASSUME TypeOK, TypeOK', ExactlyOnceInOrder', Shape
    PROVE  [Promise!Next]_<<accepted, notified>>
<1>0. Len(accepted) \in Nat /\ Len(notified) \in Nat /\ Len(notified') \in Nat
  BY DEF TypeOK
<1>1. ASSUME NEW r \in Request, Accepts(r) PROVE Promise!Accept
  <2>1. /\ Len(accepted') = Len(accepted) + 1 /\ notified' = notified
        /\ \A i \in 1..Len(accepted) : accepted'[i] = accepted[i]
    BY <1>1, AppendProperties DEF Accepts, TypeOK
  <2> QED BY <1>0, <2>1 DEF Promise!Accept, Promise!Extends
<1>2. ASSUME NEW result \in Notification, Answers(result) PROVE Promise!Answer
  <2>1. PICK n \in 0..Len(queue) : NextTaken(result, n)
    BY <1>2 DEF Answers
  <2>2. /\ Len(notified') = Len(notified) + 1 + n /\ n \in Nat
        /\ \A i \in 1..Len(notified) : notified'[i] = notified[i]
    BY <2>1 DEF NextTaken, TypeOK
  <2>3. accepted' = accepted
    BY <1>2 DEF Answers
  <2>4. Promise!Extends(notified', notified)
    BY <1>0, <2>2 DEF Promise!Extends
  <2>5. Len(notified') <= Len(accepted)
    <3>1. Len(active') \in Nat /\ Len(queue') \in Nat
      BY DEF TypeOK
    <3> QED BY <1>0, <2>3, <3>1 DEF ExactlyOnceInOrder
  <2>6. \A i \in (Len(notified) + 1)..Len(notified') : notified'[i].request = accepted[i]
    BY <1>0, <2>3 DEF ExactlyOnceInOrder
  <2> QED BY <2>3, <2>4, <2>5, <2>6 DEF Promise!Answer
<1>3. CASE KeepsOrder
  BY <1>3 DEF KeepsOrder
<1> QED BY <1>1, <1>2, <1>3 DEF Shape, Promise!Next

\* The pallet implements the promise it makes to its callers.
THEOREM ImplementsPromise == Spec => KeepsPromise
<1>1. Init => Promise!Init
  BY DEF Init, Promise!Init
<1>2. TypeOK /\ ExactlyOnceInOrder' /\ [Next]_vars
      => [Promise!Next]_<<accepted, notified>>
  BY StepShape, PromiseStep
<1> QED BY TypeCorrect, InOrder, <1>1, <1>2, PTL DEF Spec, KeepsPromise, Promise!Spec
-------------------------------------------------------------------------------
(* Settled for good *)

\* The ids of accepted Sends are all different and below NextTxId, and what is
\* settled was answered.
IdsInv ==
    /\ \A i \in 1..Len(accepted) : accepted[i].kind = "Send" => accepted[i].id < nextTxId
    /\ \A i, j \in 1..Len(accepted) :
          /\ accepted[i].kind = "Send" /\ accepted[j].kind = "Send"
          /\ accepted[i].id = accepted[j].id
          => i = j
    /\ \A id \in DOMAIN settled : \E i \in 1..Len(notified) :
          notified[i].request.kind = "Send" /\ notified[i].request.id = id

\* A step leaves the accepted requests alone, or accepts one with a new id.
GrowsIds(r) ==
    /\ accepted' = Append(accepted, r)
    /\ nextTxId' >= nextTxId
    /\ r.kind = "Send" => r.id = nextTxId /\ nextTxId' = nextTxId + 1

LEMMA StepIds ==
    ASSUME TypeOK, [Next]_vars
    PROVE  \/ accepted' = accepted /\ nextTxId' >= nextTxId
           \/ \E r \in Request : GrowsIds(r)
<1>0. nextTxId \in Nat
  BY DEF TypeOK
<1>1. ASSUME NEW n \in ParamCounts, publish(n) PROVE \E r \in Request : GrowsIds(r)
  <2> DEFINE r == [kind |-> "Send", id |-> nextTxId, nparams |-> n]
  <2>1. r \in Request /\ nextTxId' = nextTxId + 1 /\ accepted' = Append(accepted, r)
        /\ r.id = nextTxId
    BY <1>0, <1>1, IdsAssumption DEF publish, add_new_request, Request
  <2> HIDE DEF r
  <2> QED BY <1>0, <2>1 DEF GrowsIds
<1>2. ASSUME NEW id \in LowerIds, generate_lower_proof(id) PROVE \E r \in Request : GrowsIds(r)
  <2> DEFINE r == [kind |-> "LowerProof", id |-> id, nparams |-> 0]
  <2>1. r \in Request /\ nextTxId' = nextTxId /\ accepted' = Append(accepted, r)
        /\ r.kind # "Send"
    BY <1>2, IdsAssumption DEF generate_lower_proof, add_new_request, Request
  <2> HIDE DEF r
  <2> QED BY <1>0, <2>1 DEF GrowsIds
<1>3. ASSUME NEW author \in Accounts, AuthorCall(author)
      PROVE  accepted' = accepted /\ nextTxId' = nextTxId
  BY <1>3 DEF AuthorCall, add_confirmation, add_eth_tx_hash, add_corroboration
<1>4. CASE RemoveActiveRequest
  BY <1>0, <1>4 DEF RemoveActiveRequest
<1>5. ASSUME NEW id \in AdminTxIds, id >= nextTxId, SetEthereumTransactionId(id)
      PROVE  accepted' = accepted /\ nextTxId' >= nextTxId
  BY <1>5 DEF SetEthereumTransactionId
<1>6. ASSUME NEW i \in Instances, SetEthBridgeInstance(i)
      PROVE  accepted' = accepted /\ nextTxId' = nextTxId
  BY <1>6 DEF SetEthBridgeInstance
<1>7. ASSUME NEW vs \in ValidatorSets, NewSession(vs)
      PROVE  accepted' = accepted /\ nextTxId' = nextTxId
  BY <1>7 DEF NewSession
<1>8. CASE UNCHANGED vars
  BY <1>0, <1>8 DEF vars
<1>9. ASSUME accepted' = accepted, nextTxId' = nextTxId
      PROVE  accepted' = accepted /\ nextTxId' >= nextTxId
  BY <1>0, <1>9
<1> QED BY <1>1, <1>2, <1>3, <1>4, <1>5, <1>6, <1>7, <1>8, <1>9 DEF Next

\* The active Send is settled and answered alike; the other outcomes stay.
Settles(success) ==
    /\ active # None /\ active[1].request.kind = "Send"
    /\ DOMAIN settled' = DOMAIN settled \cup {active[1].request.id}
    /\ settled'[active[1].request.id].tx_succeeded = success
    /\ \A id \in DOMAIN settled : id # active[1].request.id => settled'[id] = settled[id]
    /\ Answers(Notify(active[1].request, success, "settled"))

LEMMA CompleteSettles ==
    ASSUME TypeOK, active # None, active[1].tx_data # None,
           NEW t \in ActiveEthTransaction, NEW success \in BOOLEAN,
           complete_transaction(active[1].request, t, success),
           UNCHANGED <<validators, nextTxId, instance, accepted>>
    PROVE  Settles(success)
<1> DEFINE r == active[1].request
           hash == IF success /\ has_enough_corroborations(
                                   Len(t.invalid_tx_hash_corroborations))
                   THEN ZeroHash ELSE t.eth_tx_hash
           data == [sender |-> t.sender, eth_tx_hash |-> hash,
                    tx_succeeded |-> success]
<1>1. settled' = [id \in DOMAIN settled \cup {r.id} |-> IF id = r.id THEN data ELSE settled[id]]
  BY DEF complete_transaction
<1>2. data.tx_succeeded = success
  OBVIOUS
<1>3. Answers(Notify(active[1].request, success, "settled"))
  BY CompleteStep
<1>4. active[1].request.kind = "Send"
  BY TxFacts, ActiveFacts
<1> HIDE DEF data
<1>5. settled'[r.id] = data /\ DOMAIN settled' = DOMAIN settled \cup {r.id}
      /\ \A id \in DOMAIN settled : id # r.id => settled'[id] = settled[id]
  BY <1>1
<1> QED BY <1>2, <1>3, <1>4, <1>5 DEF Settles

LEMMA CorroborationSettles ==
    ASSUME TypeOK, NEW author \in Accounts, NEW id, NEW succeeded \in BOOLEAN,
           NEW hash_is_valid \in BOOLEAN, NEW replay_attempt,
           add_corroboration(id, succeeded, hash_is_valid, author, replay_attempt)
    PROVE  settled' = settled \/ Settles(succeeded)
<1> DEFINE r == active[1].request
           t == Recorded(active[1].tx_data[1], succeeded, hash_is_valid, author)
           matching == IF succeeded THEN t.success_corroborations
                                    ELSE t.failure_corroborations
<1>1. active # None /\ active[1].tx_data # None
  BY DEF add_corroboration, corroboration_counts, is_active_request
<1>2. /\ IF has_enough_corroborations(Len(matching))
         THEN finalize_state(r, t, succeeded)
         ELSE /\ active' = with_tx_data(active[1], t)
              /\ UNCHANGED <<queue, settled, offenders, setups, primary, notified>>
      /\ UNCHANGED <<validators, nextTxId, instance, accepted>>
  BY DEF add_corroboration, Recorded
<1>3. t \in ActiveEthTransaction
  BY <1>1, TxFacts, RecordedProperties
<1> HIDE DEF t
<1>4. settled' = settled \/ complete_transaction(r, t, succeeded)
  BY <1>2 DEF finalize_state
<1>5. CASE complete_transaction(r, t, succeeded)
  BY <1>1, <1>2, <1>3, <1>5, CompleteSettles
<1> QED BY <1>4, <1>5

LEMMA StepSettles ==
    ASSUME TypeOK, [Next]_vars
    PROVE  settled' = settled \/ \E success \in BOOLEAN : Settles(success)
<1>2. ASSUME NEW author \in Accounts, AuthorCall(author)
      PROVE  settled' = settled \/ \E success \in BOOLEAN : Settles(success)
  <2>1. \/ \E id, c : add_confirmation(id, c, author)
        \/ \E id, h : add_eth_tx_hash(id, h, author)
        \/ \E id, k : \E succeeded, valid \in BOOLEAN :
              add_corroboration(id, succeeded, valid, author, k)
    BY <1>2 DEF AuthorCall
  <2>2. ASSUME NEW id, NEW c, add_confirmation(id, c, author) PROVE settled' = settled
    BY <2>2 DEF add_confirmation
  <2>3. ASSUME NEW id, NEW h, add_eth_tx_hash(id, h, author) PROVE settled' = settled
    BY <2>3 DEF add_eth_tx_hash
  <2> QED BY <2>1, <2>2, <2>3, CorroborationSettles
<1>3. ASSUME \/ \E n \in ParamCounts : publish(n)
             \/ \E id \in LowerIds : generate_lower_proof(id)
      PROVE  settled' = settled
  BY <1>3 DEF publish, generate_lower_proof, add_new_request
<1>4. ASSUME \/ RemoveActiveRequest
             \/ \E id \in AdminTxIds : SetEthereumTransactionId(id)
             \/ \E i \in Instances : SetEthBridgeInstance(i)
             \/ \E vs \in ValidatorSets : NewSession(vs)
             \/ UNCHANGED vars
      PROVE  settled' = settled
  BY <1>4 DEF RemoveActiveRequest, SetEthereumTransactionId, SetEthBridgeInstance,
     NewSession, vars
<1> QED BY <1>2, <1>3, <1>4 DEF Next

\* Answers are only added (Notify, process_next_request).
LEMMA AnswersGrow ==
    ASSUME TypeOK, TypeOK', Shape
    PROVE  /\ Len(notified) \in Nat /\ Len(notified') \in Nat /\ Len(notified') >= Len(notified)
           /\ \A i \in 1..Len(notified) : notified'[i] = notified[i]
<1>0. Len(notified) \in Nat /\ Len(notified') \in Nat
  BY DEF TypeOK
<1>1. CASE notified' = notified
  BY <1>0, <1>1
<1>2. ASSUME NEW result, NEW n \in 0..Len(queue), NextTaken(result, n)
      PROVE  /\ Len(notified') >= Len(notified)
             /\ \A i \in 1..Len(notified) : notified'[i] = notified[i]
  <2>1. n \in Nat
    BY DEF TypeOK
  <2> QED BY <1>0, <1>2, <2>1 DEF NextTaken
<1> QED BY <1>0, <1>1, <1>2 DEF Shape, Accepts, Answers, KeepsOrder

\* The active Send is not settled yet, because its id is not one of those answered.
LEMMA ActiveIsNew ==
    ASSUME TypeOK, ExactlyOnceInOrder, IdsInv, active # None, active[1].request.kind = "Send"
    PROVE  active[1].request.id \notin DOMAIN settled
<1> DEFINE n == Len(notified)
<1>0. n \in Nat /\ Len(active) = 1 /\ Len(accepted) \in Nat /\ Len(queue) \in Nat
  BY ActiveFacts DEF TypeOK
<1>1. active[1].request = accepted[n + 1] /\ n + 1 \in 1..Len(accepted)
  BY <1>0 DEF ExactlyOnceInOrder
<1>2. SUFFICES ASSUME active[1].request.id \in DOMAIN settled PROVE FALSE
  OBVIOUS
<1>3. PICK i \in 1..n : /\ notified[i].request.kind = "Send"
                        /\ notified[i].request.id = active[1].request.id
  BY <1>2 DEF IdsInv
<1>4. notified[i].request = accepted[i] /\ i \in 1..Len(accepted) /\ i # n + 1
  BY <1>0, <1>1 DEF ExactlyOnceInOrder
<1> QED BY <1>1, <1>3, <1>4 DEF IdsInv

LEMMA IdsStep ==
    ASSUME TypeOK, TypeOK', ExactlyOnceInOrder, IdsInv, [Next]_vars
    PROVE  IdsInv'
<1>0. nextTxId \in Nat /\ nextTxId' \in Nat /\ Len(accepted) \in Nat /\ Shape
  BY StepShape DEF TypeOK
<1> DEFINE n == Len(accepted)
           Below == \A i \in 1..Len(accepted) :
                        accepted[i].kind = "Send" => accepted[i].id < nextTxId
           Apart == \A i, j \in 1..Len(accepted) :
                        /\ accepted[i].kind = "Send" /\ accepted[j].kind = "Send"
                        /\ accepted[i].id = accepted[j].id
                        => i = j
<1>1. /\ Below /\ Apart
      /\ \A i \in 1..n : accepted[i].id \in Nat
  <2>1. \A i \in 1..n : accepted[i] \in Request
    BY ElementOfSeq DEF TypeOK
  <2> QED BY <2>1 DEF IdsInv, Request
<1>2. Below' /\ Apart'
  <2>1. CASE accepted' = accepted /\ nextTxId' >= nextTxId
    BY <1>0, <1>1, <2>1
  <2>2. ASSUME NEW r \in Request, GrowsIds(r) PROVE Below' /\ Apart'
    <3>1. /\ Len(accepted') = n + 1 /\ accepted'[n + 1] = r
          /\ \A i \in 1..n : accepted'[i] = accepted[i]
      BY <2>2, AppendProperties DEF GrowsIds, TypeOK
    <3>2. nextTxId' >= nextTxId /\ (r.kind = "Send" => r.id = nextTxId /\ nextTxId' = nextTxId + 1)
      BY <2>2 DEF GrowsIds
    <3>3. \A i \in 1..(n + 1) : i \in 1..n \/ i = n + 1
      BY <1>0
    <3>4. Below'
      BY <1>0, <1>1, <3>1, <3>2, <3>3
    <3>5. Apart'
      <4> SUFFICES ASSUME NEW i \in 1..(n + 1), NEW j \in 1..(n + 1),
                          accepted'[i].kind = "Send", accepted'[j].kind = "Send",
                          accepted'[i].id = accepted'[j].id
                   PROVE  i = j
        BY <3>1
      <4>1. CASE i \in 1..n /\ j \in 1..n
        BY <1>1, <3>1, <4>1
      <4>2. CASE i \in 1..n /\ j = n + 1
        BY <1>0, <1>1, <3>1, <3>2, <4>2
      <4>3. CASE i = n + 1 /\ j \in 1..n
        BY <1>0, <1>1, <3>1, <3>2, <4>3
      <4> QED BY <3>3, <4>1, <4>2, <4>3
    <3> QED BY <3>4, <3>5
  <2> QED BY <2>1, <2>2, StepIds
<1>3. ASSUME NEW id \in DOMAIN settled'
      PROVE  \E i \in 1..Len(notified') :
                 notified'[i].request.kind = "Send" /\ notified'[i].request.id = id
  <2>1. /\ Len(notified) \in Nat /\ Len(notified') \in Nat /\ Len(notified') >= Len(notified)
        /\ \A i \in 1..Len(notified) : notified'[i] = notified[i]
    BY <1>0, AnswersGrow
  <2>2. CASE id \in DOMAIN settled
    <3>1. PICK i \in 1..Len(notified) :
                 notified[i].request.kind = "Send" /\ notified[i].request.id = id
      BY <2>2 DEF IdsInv
    <3> QED BY <2>1, <3>1
  <2>3. CASE id \notin DOMAIN settled
    <3>1. PICK success \in BOOLEAN : Settles(success)
      BY <2>3, StepSettles
    <3>2. id = active[1].request.id /\ active[1].request.kind = "Send"
      BY <2>3, <3>1 DEF Settles
    <3>3. PICK k \in 0..Len(queue) : NextTaken(Notify(active[1].request, success, "settled"), k)
      BY <3>1 DEF Settles, Answers
    <3>4. /\ notified'[Len(notified) + 1] = Notify(active[1].request, success, "settled")
          /\ Len(notified') = Len(notified) + 1 + k /\ k \in Nat
      BY <3>3 DEF NextTaken, TypeOK
    <3>5. notified'[Len(notified) + 1].request = active[1].request
          /\ Len(notified) + 1 \in 1..Len(notified')
      BY <2>1, <3>4 DEF Notify
    <3> QED BY <3>2, <3>5
  <2> QED BY <2>2, <2>3
<1> QED BY <1>2, <1>3 DEF IdsInv

\* The step of SettledForGood.
KeptAndTold ==
    /\ \A id \in DOMAIN settled :
          id \in DOMAIN settled' /\ settled'[id] = settled[id]
    /\ \A id \in DOMAIN settled' \ DOMAIN settled :
          \E i \in DOMAIN notified' \ DOMAIN notified :
             /\ notified'[i].request.kind = "Send"
             /\ notified'[i].request.id = id
             /\ notified'[i].why = "settled"
             /\ notified'[i].succeeded = settled'[id].tx_succeeded

LEMMA SettlesForGood ==
    ASSUME TypeOK, TypeOK', ExactlyOnceInOrder, IdsInv, [Next]_vars
    PROVE  KeptAndTold
<1>1. CASE settled' = settled
  BY <1>1 DEF KeptAndTold
<1>2. ASSUME NEW success \in BOOLEAN, Settles(success) PROVE KeptAndTold
  <2> DEFINE r == active[1].request
             x == Notify(r, success, "settled")
             n == Len(notified)
  <2>1. r.id \notin DOMAIN settled
    BY <1>2, ActiveIsNew DEF Settles
  <2>2. PICK k \in 0..Len(queue) : NextTaken(x, k)
    BY <1>2 DEF Settles, Answers
  <2>3. /\ notified'[n + 1] = x /\ Len(notified') = n + 1 + k /\ k \in Nat /\ n \in Nat
        /\ notified' \in Seq(Notification) /\ notified \in Seq(Notification)
    <3>1. /\ notified'[n + 1] = x /\ Len(notified') = n + 1 + k
          /\ notified' \in Seq(Notification)
      BY <2>2, Zenon DEF NextTaken
    <3>2. k \in Nat
      OBVIOUS
    <3>3. notified \in Seq(Notification) /\ n \in Nat
      BY DEF TypeOK
    <3> QED BY <3>1, <3>2, <3>3
  <2>4. n + 1 \in DOMAIN notified' \ DOMAIN notified
    <3>1. DOMAIN notified' = 1..Len(notified') /\ DOMAIN notified = 1..n
      BY <2>3, LenProperties
    <3> QED BY <2>3, <3>1
  <2>5. x.request = r /\ x.why = "settled" /\ x.succeeded = success
    BY DEF Notify
  <2> HIDE DEF x, n
  <2>6. /\ notified'[n + 1].request.kind = "Send" /\ notified'[n + 1].request.id = r.id
        /\ notified'[n + 1].why = "settled"
        /\ notified'[n + 1].succeeded = settled'[r.id].tx_succeeded
    <3>1. r.kind = "Send" /\ settled'[r.id].tx_succeeded = success
      BY <1>2 DEF Settles
    <3> QED BY <2>3, <2>5, <3>1, Zenon
  <2>7. /\ DOMAIN settled' = DOMAIN settled \cup {r.id}
        /\ \A id \in DOMAIN settled : id # r.id => settled'[id] = settled[id]
    BY <1>2 DEF Settles
  <2>8. \A id \in DOMAIN settled : id \in DOMAIN settled' /\ settled'[id] = settled[id]
    BY <2>1, <2>7
  <2>9. \A id \in DOMAIN settled' \ DOMAIN settled : id = r.id
    BY <2>7
  <2> HIDE DEF r
  <2> QED BY <2>4, <2>6, <2>8, <2>9, Zenon DEF KeptAndTold
<1> QED BY <1>1, <1>2, StepSettles

\* Whatever ids operators skip to and however often a Send is replayed: its outcome is
\* stored once, together with the answer, and never rewritten (complete_transaction,
\* SetEthereumTransactionId).
THEOREM OutcomesStay == Spec => SettledForGood
<1>1. Init => IdsInv
  BY EmptySeq DEF Init, IdsInv
<1>2. TypeOK /\ TypeOK' /\ ExactlyOnceInOrder /\ IdsInv /\ [Next]_vars => IdsInv'
  BY IdsStep
<1>3. TypeOK /\ TypeOK' /\ ExactlyOnceInOrder /\ IdsInv /\ [Next]_vars => [KeptAndTold]_vars
  BY SettlesForGood
<1> QED BY TypeCorrect, InOrder, <1>1, <1>2, <1>3, PTL DEF Spec, SettledForGood, KeptAndTold
=============================================================================
