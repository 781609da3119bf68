-------------------------- MODULE EthBridgeVotesProofs --------------------------
(***************************************************************************)
(* Theorems about the votes on the active request of EthBridgeRequests:    *)
(* nobody counts twice.                                                    *)
(***************************************************************************)
EXTENDS EthBridgeRequestsProofs

\* Membership in a list that grows.
LEMMA ContainsAppend ==
    ASSUME NEW S, NEW s \in Seq(S), NEW a \in S, NEW x
    PROVE  Contains(Append(s, a), x) <=> Contains(s, x) \/ x = a
<1>1. /\ Append(s, a) \in Seq(S) /\ Len(Append(s, a)) = Len(s) + 1 /\ Len(s) \in Nat
      /\ \A i \in 1..Len(s) : Append(s, a)[i] = s[i]
      /\ Append(s, a)[Len(s) + 1] = a
  BY AppendProperties
<1>2. DOMAIN s = 1..Len(s) /\ DOMAIN Append(s, a) = 1..(Len(s) + 1)
  BY <1>1, LenProperties
<1>3. ASSUME Contains(Append(s, a), x) PROVE Contains(s, x) \/ x = a
  <2>1. PICK i \in 1..(Len(s) + 1) : Append(s, a)[i] = x
    BY <1>2, <1>3 DEF Contains
  <2>2. i \in 1..Len(s) \/ i = Len(s) + 1
    BY <1>1, <2>1
  <2> QED BY <1>1, <1>2, <2>1, <2>2 DEF Contains
<1>4. ASSUME Contains(s, x) PROVE Contains(Append(s, a), x)
  <2>1. PICK i \in 1..Len(s) : s[i] = x
    BY <1>2, <1>4 DEF Contains
  <2>2. i \in 1..(Len(s) + 1)
    BY <1>1
  <2> QED BY <1>1, <1>2, <2>1, <2>2 DEF Contains
<1>5. Contains(Append(s, a), a)
  <2>1. Len(s) + 1 \in 1..(Len(s) + 1)
    BY <1>1
  <2> QED BY <1>1, <1>2, <2>1 DEF Contains
<1> QED BY <1>3, <1>4, <1>5

\* Membership in two lists taken together.
LEMMA ContainsConcat ==
    ASSUME NEW S, NEW s \in Seq(S), NEW t \in Seq(S), NEW x
    PROVE  Contains(s \o t, x) <=> Contains(s, x) \/ Contains(t, x)
<1>1. /\ s \o t \in Seq(S) /\ Len(s \o t) = Len(s) + Len(t)
      /\ \A i \in 1..(Len(s) + Len(t)) :
            (s \o t)[i] = IF i <= Len(s) THEN s[i] ELSE t[i - Len(s)]
      /\ Len(s) \in Nat /\ Len(t) \in Nat
  BY ConcatProperties
<1>2. /\ DOMAIN s = 1..Len(s) /\ DOMAIN t = 1..Len(t)
      /\ DOMAIN (s \o t) = 1..(Len(s) + Len(t))
  BY <1>1, LenProperties
<1>3. ASSUME Contains(s \o t, x) PROVE Contains(s, x) \/ Contains(t, x)
  <2>1. PICK i \in 1..(Len(s) + Len(t)) : (s \o t)[i] = x
    BY <1>2, <1>3 DEF Contains
  <2>2. CASE i <= Len(s)
    <3>1. i \in 1..Len(s) /\ s[i] = x
      BY <1>1, <2>1, <2>2
    <3> QED BY <1>2, <3>1 DEF Contains
  <2>3. CASE ~(i <= Len(s))
    <3>1. i - Len(s) \in 1..Len(t) /\ t[i - Len(s)] = x
      BY <1>1, <2>1, <2>3
    <3> QED BY <1>2, <3>1 DEF Contains
  <2> QED BY <2>2, <2>3
<1>4. ASSUME Contains(s, x) PROVE Contains(s \o t, x)
  <2>1. PICK i \in 1..Len(s) : s[i] = x
    BY <1>2, <1>4 DEF Contains
  <2>2. i \in 1..(Len(s) + Len(t)) /\ (s \o t)[i] = x
    BY <1>1, <2>1
  <2> QED BY <1>2, <2>2 DEF Contains
<1>5. ASSUME Contains(t, x) PROVE Contains(s \o t, x)
  <2>1. PICK i \in 1..Len(t) : t[i] = x
    BY <1>2, <1>5 DEF Contains
  <2>2. Len(s) + i \in 1..(Len(s) + Len(t)) /\ ~(Len(s) + i <= Len(s))
        /\ (Len(s) + i) - Len(s) = i
    BY <1>1, <2>1
  <2>3. (s \o t)[Len(s) + i] = x
    BY <1>1, <2>1, <2>2
  <2> QED BY <1>2, <2>2, <2>3 DEF Contains
<1> QED BY <1>3, <1>4, <1>5

\* A list without duplicates stays so when a newcomer joins.
LEMMA NoDuplicatesAppend ==
    ASSUME NEW S, NEW s \in Seq(S), NEW a \in S, NoDuplicates(s), ~Contains(s, a)
    PROVE  NoDuplicates(Append(s, a))
<1>1. /\ Append(s, a) \in Seq(S) /\ Len(Append(s, a)) = Len(s) + 1 /\ Len(s) \in Nat
      /\ \A i \in 1..Len(s) : Append(s, a)[i] = s[i]
      /\ Append(s, a)[Len(s) + 1] = a
  BY AppendProperties
<1>2. DOMAIN s = 1..Len(s) /\ DOMAIN Append(s, a) = 1..(Len(s) + 1)
  BY <1>1, LenProperties
<1>3. \A i \in 1..Len(s) : s[i] # a
  BY <1>2 DEF Contains
<1>4. \A i \in 1..(Len(s) + 1) : i \in 1..Len(s) \/ i = Len(s) + 1
  BY <1>1
<1> QED BY <1>1, <1>2, <1>3, <1>4 DEF NoDuplicates

\* Two lists taken together have no duplicates when neither has and they share
\* no member.
LEMMA NoDuplicatesConcat ==
    ASSUME NEW S, NEW s \in Seq(S), NEW t \in Seq(S)
    PROVE  NoDuplicates(s \o t) <=>
               /\ NoDuplicates(s) /\ NoDuplicates(t)
               /\ \A x : ~(Contains(s, x) /\ Contains(t, x))
<1>1. /\ s \o t \in Seq(S) /\ Len(s \o t) = Len(s) + Len(t)
      /\ \A i \in 1..(Len(s) + Len(t)) :
            (s \o t)[i] = IF i <= Len(s) THEN s[i] ELSE t[i - Len(s)]
      /\ Len(s) \in Nat /\ Len(t) \in Nat
  BY ConcatProperties
<1>2. /\ DOMAIN s = 1..Len(s) /\ DOMAIN t = 1..Len(t)
      /\ DOMAIN (s \o t) = 1..(Len(s) + Len(t))
  BY <1>1, LenProperties
<1>3. \A i \in 1..Len(s) : i \in 1..(Len(s) + Len(t)) /\ (s \o t)[i] = s[i]
  BY <1>1
<1>4. \A i \in 1..Len(t) :
         Len(s) + i \in 1..(Len(s) + Len(t)) /\ (s \o t)[Len(s) + i] = t[i]
  <2> TAKE i \in 1..Len(t)
  <2>1. /\ Len(s) + i \in 1..(Len(s) + Len(t)) /\ ~(Len(s) + i <= Len(s))
        /\ (Len(s) + i) - Len(s) = i
    BY <1>1
  <2> QED BY <1>1, <2>1
<1>5. ASSUME NoDuplicates(s \o t) PROVE NoDuplicates(s)
  BY <1>2, <1>3, <1>5 DEF NoDuplicates
<1>6. ASSUME NoDuplicates(s \o t) PROVE NoDuplicates(t)
  <2> SUFFICES ASSUME NEW i \in 1..Len(t), NEW j \in 1..Len(t), t[i] = t[j]
               PROVE  i = j
    BY <1>2 DEF NoDuplicates
  <2>1. Len(s) + i = Len(s) + j
    <3>1. /\ Len(s) + i \in 1..(Len(s) + Len(t)) /\ (s \o t)[Len(s) + i] = t[i]
          /\ Len(s) + j \in 1..(Len(s) + Len(t)) /\ (s \o t)[Len(s) + j] = t[j]
      BY <1>4
    <3> QED BY <1>2, <1>6, <3>1 DEF NoDuplicates
  <2> QED BY <1>1, <2>1
<1>7. ASSUME NoDuplicates(s \o t) PROVE \A x : ~(Contains(s, x) /\ Contains(t, x))
  <2> SUFFICES ASSUME NEW x, Contains(s, x), Contains(t, x) PROVE FALSE
    OBVIOUS
  <2>1. PICK i \in 1..Len(s) : s[i] = x
    BY <1>2 DEF Contains
  <2>2. PICK j \in 1..Len(t) : t[j] = x
    BY <1>2 DEF Contains
  <2>3. i = Len(s) + j
    <3>1. /\ i \in 1..(Len(s) + Len(t)) /\ (s \o t)[i] = x
          /\ Len(s) + j \in 1..(Len(s) + Len(t)) /\ (s \o t)[Len(s) + j] = x
      BY <1>3, <1>4, <2>1, <2>2
    <3> QED BY <1>2, <1>7, <3>1 DEF NoDuplicates
  <2> QED BY <1>1, <2>3
<1>8. ASSUME NoDuplicates(s), NoDuplicates(t), \A x : ~(Contains(s, x) /\ Contains(t, x))
      PROVE  NoDuplicates(s \o t)
  <2> SUFFICES ASSUME NEW i \in 1..(Len(s) + Len(t)), NEW j \in 1..(Len(s) + Len(t)),
                      (s \o t)[i] = (s \o t)[j]
               PROVE  i = j
    BY <1>2 DEF NoDuplicates
  <2>1. CASE i <= Len(s) /\ j <= Len(s)
    <3>1. i \in 1..Len(s) /\ j \in 1..Len(s) /\ s[i] = s[j]
      BY <1>1, <2>1
    <3> QED BY <1>2, <1>8, <3>1 DEF NoDuplicates
  <2>2. CASE ~(i <= Len(s)) /\ ~(j <= Len(s))
    <3>1. i - Len(s) \in 1..Len(t) /\ j - Len(s) \in 1..Len(t) /\ t[i - Len(s)] = t[j - Len(s)]
      BY <1>1, <2>2
    <3>2. i - Len(s) = j - Len(s)
      BY <1>2, <1>8, <3>1 DEF NoDuplicates
    <3> QED BY <1>1, <3>2
  <2>3. CASE i <= Len(s) /\ ~(j <= Len(s))
    <3>1. i \in 1..Len(s) /\ j - Len(s) \in 1..Len(t) /\ s[i] = t[j - Len(s)]
      BY <1>1, <2>3
    <3> QED BY <1>2, <1>8, <3>1 DEF Contains
  <2>4. CASE ~(i <= Len(s)) /\ j <= Len(s)
    <3>1. j \in 1..Len(s) /\ i - Len(s) \in 1..Len(t) /\ s[j] = t[i - Len(s)]
      BY <1>1, <2>4
    <3> QED BY <1>2, <1>8, <3>1 DEF Contains
  <2> QED BY <2>1, <2>2, <2>3, <2>4
<1> QED BY <1>5, <1>6, <1>7, <1>8
-------------------------------------------------------------------------------
(* What a step may do to the votes *)

Confirms(author) ==
    LET confirmation == [signer |-> author, msg |-> active[1].msg_hash]
    IN  /\ active # None
        /\ DOMAIN active' = {1}
        /\ active'[1] = [active[1] EXCEPT !.confirmations = Append(@, confirmation)]
        /\ ~Contains(active[1].confirmations, confirmation)
        /\ active[1].tx_data # None => author # active[1].tx_data[1].sender

StoresTx(t) ==
    /\ active # None
    /\ active[1].tx_data # None
    /\ t \in ActiveEthTransaction
    /\ DOMAIN active' = {1}
    /\ active'[1] = [active[1] EXCEPT !.tx_data = Some(t)]
    /\ DOMAIN active'[1].tx_data = {1}
    /\ active'[1].tx_data[1] = t

SetsHash(hash) == StoresTx([active[1].tx_data[1] EXCEPT !.eth_tx_hash = hash])

Corroborates(author, succeeded, hash_is_valid) ==
    /\ StoresTx(Recorded(active[1].tx_data[1], succeeded, hash_is_valid, author))
    /\ author # active[1].tx_data[1].sender
    /\ requires_corroboration(active[1].tx_data[1], author)

VoteShape ==
    \/ active' = active
    \/ \A i \in DOMAIN active' : Fresh(active'[i])
    \/ \E author \in Accounts : Confirms(author)
    \/ \E hash \in EthTxHashes : SetsHash(hash)
    \/ \E author \in Accounts, succeeded \in BOOLEAN, hash_is_valid \in BOOLEAN :
          Corroborates(author, succeeded, hash_is_valid)

\* A finished request leaves no votes behind.
LEMMA FreshAfterNext ==
    ASSUME TypeOK, NEW result \in Notification, process_next_request(result)
    PROVE  \A i \in DOMAIN active' : Fresh(active'[i])
BY ProcessNext DEF NextTaken

\* Neither does a new set-up.
LEMMA FreshAfterSetUp ==
    ASSUME NEW r, SetUpFor(r)
    PROVE  \A i \in DOMAIN active' : Fresh(active'[i])
BY DEF SetUpFor

\* add_confirmation
LEMMA ConfirmationVotes ==
    ASSUME TypeOK, NEW author \in Accounts, NEW id, NEW confirmation,
           add_confirmation(id, confirmation, author)
    PROVE  VoteShape
<1> DEFINE a == [active[1] EXCEPT !.confirmations = Append(@, confirmation)]
           done == a.request.kind = "LowerProof" /\ has_enough_confirmations(a)
           result == Notify(a.request, TRUE, "proof")
<1>1. /\ active # None /\ confirmation = [signer |-> author, msg |-> active[1].msg_hash]
      /\ ~Contains(active[1].confirmations, confirmation)
      /\ active[1].tx_data # None => author # active[1].tx_data[1].sender
  BY DEF add_confirmation, confirmation_counts, is_active_request
<1>2. /\ active[1] \in ActiveRequestData
      /\ Len(active[1].tx_data) = IF active[1].request.kind = "Send" THEN 1 ELSE 0
  BY <1>1, ActiveFacts
<1>3. confirmation \in Signature
  BY <1>1, <1>2 DEF ActiveRequestData, Signature
<1>4. Append(active[1].confirmations, confirmation) \in Seq(Signature)
  BY <1>2, <1>3, AppendProperties DEF ActiveRequestData
<1>5. /\ a \in ActiveRequestData /\ a.request = active[1].request
      /\ a.tx_data = active[1].tx_data
  BY <1>2, <1>4 DEF ActiveRequestData
<1>6. CASE done
  <2>1. process_next_request(result)
    BY <1>6 DEF add_confirmation
  <2>2. result \in Notification
    BY <1>2, <1>5 DEF Notify, Notification, ActiveRequestData
  <2> HIDE DEF result
  <2> QED BY <2>1, <2>2, FreshAfterNext DEF VoteShape
<1>7. CASE ~done
  <2>1. active' = Some(a)
    BY <1>7 DEF add_confirmation
  <2>2. DOMAIN active' = {1} /\ active'[1] = a
    <3> HIDE DEF a
    <3> QED BY <1>2, <1>5, <2>1, StoreActive
  <2>3. Confirms(author)
    BY <1>1, <2>2 DEF Confirms
  <2> QED BY <2>3 DEF VoteShape
<1> QED BY <1>6, <1>7

\* add_eth_tx_hash
LEMMA EthTxHashVotes ==
    ASSUME TypeOK, NEW author \in Accounts, NEW id, NEW hash \in EthTxHashes,
           add_eth_tx_hash(id, hash, author)
    PROVE  VoteShape
<1> DEFINE t == [active[1].tx_data[1] EXCEPT !.eth_tx_hash = hash]
<1>1. active # None /\ active[1].tx_data # None /\ active' = with_tx_data(active[1], t)
  BY DEF add_eth_tx_hash, eth_tx_hash_counts, is_active_request
<1>2. t \in ActiveEthTransaction
  BY <1>1, TxFacts DEF ActiveEthTransaction
<1>3. StoresTx(t)
  <2> HIDE DEF t
  <2> QED BY <1>1, <1>2, WithTxData DEF StoresTx
<1> QED BY <1>3 DEF SetsHash, VoteShape

\* add_corroboration
LEMMA CorroborationVotes ==
    ASSUME TypeOK, NEW author \in Accounts, NEW id,
           NEW succeeded \in BOOLEAN, NEW hash_is_valid \in BOOLEAN, NEW replay_attempt,
           add_corroboration(id, succeeded, hash_is_valid, author, replay_attempt)
    PROVE  VoteShape
<1> DEFINE r == active[1].request
           t == Recorded(active[1].tx_data[1], succeeded, hash_is_valid, author)
           matching == IF succeeded THEN t.success_corroborations
                                    ELSE t.failure_corroborations
           replay == ~succeeded /\ has_enough_corroborations(
                                      Len(t.invalid_tx_hash_corroborations))
<1>1. /\ active # None /\ active[1].tx_data # None
      /\ author # active[1].tx_data[1].sender
      /\ requires_corroboration(active[1].tx_data[1], author)
  BY DEF add_corroboration, corroboration_counts, is_active_request
<1>2. IF has_enough_corroborations(Len(matching))
      THEN finalize_state(r, t, succeeded)
      ELSE active' = with_tx_data(active[1], t)
  BY DEF add_corroboration, Recorded
<1>3. t \in ActiveEthTransaction /\ t.replay_attempt = active[1].tx_data[1].replay_attempt
  BY <1>1, TxFacts, RecordedProperties
<1>4. r \in Request /\ r.kind = "Send" /\ t.replay_attempt \in Nat
  BY <1>1, <1>3, ActiveFacts, TxFacts DEF ActiveRequestData, ActiveEthTransaction
<1> HIDE DEF t
<1>5. CASE ~has_enough_corroborations(Len(matching))
  <2>1. StoresTx(t)
    BY <1>1, <1>2, <1>3, <1>5, WithTxData DEF StoresTx
  <2>2. Corroborates(author, succeeded, hash_is_valid)
    BY <1>1, <2>1 DEF Corroborates, t
  <2> QED BY <2>2 DEF VoteShape
<1>6. CASE has_enough_corroborations(Len(matching))
  <2>1. finalize_state(r, t, succeeded)
    BY <1>2, <1>6
  <2>2. CASE replay
    <3>1. can_set_up(r) /\ set_up_active_tx(r, t.replay_attempt + 1, instance)
      BY <2>1, <2>2 DEF finalize_state
    <3>2. validators # <<>> /\ instance \in Instances /\ t.replay_attempt + 1 \in Nat
      BY <1>4, <3>1 DEF can_set_up, TypeOK
    <3>3. SetUpFor(r)
      <4> HIDE DEF r
      <4> QED BY <1>4, <3>1, <3>2, SetUpSend
    <3> QED BY <3>3, FreshAfterSetUp DEF VoteShape
  <2>3. CASE ~replay
    <3>1. process_next_request(Notify(r, succeeded, "settled"))
      BY <2>1, <2>3 DEF finalize_state, complete_transaction
    <3>2. Notify(r, succeeded, "settled") \in Notification
      BY <1>4 DEF Notify, Notification
    <3> QED BY <3>1, <3>2, FreshAfterNext DEF VoteShape
  <2> QED BY <2>2, <2>3
<1> QED BY <1>5, <1>6

\* publish and generate_lower_proof
LEMMA AcceptVotes ==
    ASSUME TypeOK, NEW r \in Request, add_new_request(r)
    PROVE  VoteShape
<1>1. CASE active # None
  BY <1>1 DEF add_new_request, VoteShape
<1>2. CASE active = None
  <2>1. can_set_up(r) /\ set_up(r)
    BY <1>2 DEF add_new_request
  <2> QED BY <2>1, SetUp, FreshAfterSetUp DEF VoteShape
<1> QED BY <1>1, <1>2

\* SetEthBridgeInstance
LEMMA InstanceVotes ==
    ASSUME TypeOK, NEW i \in Instances, SetEthBridgeInstance(i)
    PROVE  VoteShape
<1>1. CASE active # None /\ active[1].request.kind = "Send"
  <2> DEFINE r == active[1].request
  <2>1. can_set_up(r) /\ set_up_active_tx(r, 0, i)
    BY <1>1 DEF SetEthBridgeInstance
  <2>2. r \in Request /\ r.kind = "Send" /\ validators # <<>>
    BY <1>1, <2>1, ActiveFacts DEF can_set_up, ActiveRequestData
  <2> HIDE DEF r
  <2> QED BY <2>1, <2>2, SetUpSend, FreshAfterSetUp DEF VoteShape
<1>2. CASE ~(active # None /\ active[1].request.kind = "Send")
  BY <1>2 DEF SetEthBridgeInstance, VoteShape
<1> QED BY <1>1, <1>2

\* A step records one vote, forgets all of them or leaves them alone.
LEMMA StepVotes ==
    ASSUME TypeOK, [Next]_vars
    PROVE  VoteShape
<1>1. ASSUME NEW n \in ParamCounts, publish(n) PROVE VoteShape
  <2>1. [kind |-> "Send", id |-> nextTxId, nparams |-> n] \in Request
    BY IdsAssumption DEF Request, TypeOK
  <2> QED BY <1>1, <2>1, AcceptVotes DEF publish
<1>2. ASSUME NEW id \in LowerIds, generate_lower_proof(id) PROVE VoteShape
  <2>1. [kind |-> "LowerProof", id |-> id, nparams |-> 0] \in Request
    BY IdsAssumption DEF Request
  <2> QED BY <1>2, <2>1, AcceptVotes DEF generate_lower_proof
<1>3. ASSUME NEW author \in Accounts, AuthorCall(author) PROVE VoteShape
  BY <1>3, ConfirmationVotes, EthTxHashVotes, CorroborationVotes DEF AuthorCall
<1>4. CASE RemoveActiveRequest
  <2>1. active # None /\ process_next_request(Notify(active[1].request, FALSE, "removed"))
    BY <1>4 DEF RemoveActiveRequest
  <2>2. Notify(active[1].request, FALSE, "removed") \in Notification
    BY <2>1, ActiveFacts DEF Notify, Notification, ActiveRequestData
  <2> QED BY <2>1, <2>2, FreshAfterNext DEF VoteShape
<1>5. ASSUME NEW id \in AdminTxIds, SetEthereumTransactionId(id) PROVE VoteShape
  BY <1>5 DEF SetEthereumTransactionId, VoteShape
<1>6. ASSUME NEW i \in Instances, SetEthBridgeInstance(i) PROVE VoteShape
  BY <1>6, InstanceVotes
<1>7. ASSUME NEW vs \in ValidatorSets, NewSession(vs) PROVE VoteShape
  BY <1>7 DEF NewSession, VoteShape
<1>8. CASE UNCHANGED vars
  BY <1>8 DEF vars, VoteShape
<1> QED BY <1>1, <1>2, <1>3, <1>4, <1>5, <1>6, <1>7, <1>8 DEF Next
-------------------------------------------------------------------------------
(* Nobody's vote counts twice *)

\* A new voter joins one of two lists that share no member.
LEMMA OneMoreVote ==
    ASSUME NEW S, NEW s \in Seq(S), NEW t \in Seq(S), NEW a \in S,
           NoDuplicates(s \o t), ~Contains(s \o t, a)
    PROVE  /\ NoDuplicates(Append(s, a) \o t)
           /\ NoDuplicates(s \o Append(t, a))
           /\ \A x : Contains(Append(s, a) \o t, x) <=> Contains(s \o t, x) \/ x = a
           /\ \A x : Contains(s \o Append(t, a), x) <=> Contains(s \o t, x) \/ x = a
<1>1. /\ NoDuplicates(s) /\ NoDuplicates(t)
      /\ \A x : ~(Contains(s, x) /\ Contains(t, x))
  BY NoDuplicatesConcat
<1>2. ~Contains(s, a) /\ ~Contains(t, a)
  BY ContainsConcat
<1>3. Append(s, a) \in Seq(S) /\ Append(t, a) \in Seq(S)
  BY AppendProperties
<1>4. NoDuplicates(Append(s, a)) /\ NoDuplicates(Append(t, a))
  BY <1>1, <1>2, NoDuplicatesAppend
<1>5. \A x : /\ Contains(Append(s, a), x) <=> Contains(s, x) \/ x = a
             /\ Contains(Append(t, a), x) <=> Contains(t, x) \/ x = a
  BY ContainsAppend
<1>6. \A x : Contains(s \o t, x) <=> Contains(s, x) \/ Contains(t, x)
  BY ContainsConcat
<1>7. \A x : /\ Contains(Append(s, a) \o t, x) <=> Contains(Append(s, a), x) \/ Contains(t, x)
             /\ Contains(s \o Append(t, a), x) <=> Contains(s, x) \/ Contains(Append(t, a), x)
  BY <1>3, ContainsConcat
<1>8. \A x : /\ ~(Contains(Append(s, a), x) /\ Contains(t, x))
             /\ ~(Contains(s, x) /\ Contains(Append(t, a), x))
  BY <1>1, <1>2, <1>5
<1>9. NoDuplicates(Append(s, a) \o t) /\ NoDuplicates(s \o Append(t, a))
  BY <1>1, <1>3, <1>4, <1>8, NoDuplicatesConcat
<1> QED BY <1>5, <1>6, <1>7, <1>9

Outcome(t) == t.success_corroborations \o t.failure_corroborations
Judgement(t) == t.valid_tx_hash_corroborations \o t.invalid_tx_hash_corroborations

\* The members of both lists, without the lists.
VotesOK(t) ==
    /\ NoDuplicates(Outcome(t))
    /\ NoDuplicates(Judgement(t))
    /\ \A x : Contains(Outcome(t), x) <=> Contains(Judgement(t), x)
    /\ ~Contains(Outcome(t), t.sender)

LEMMA SameMembersMeaning ==
    ASSUME NEW s, NEW t
    PROVE  SameMembers(s, t) <=> \A x : Contains(s, x) <=> Contains(t, x)
BY DEF SameMembers, Contains

LEMMA CorroboratorsMeaning ==
    CorroboratorsCountOnce <=>
        \A i \in DOMAIN active : \A j \in DOMAIN active[i].tx_data :
            VotesOK(active[i].tx_data[j])
BY SameMembersMeaning DEF CorroboratorsCountOnce, VotesOK, Outcome, Judgement

\* No votes, no repetition.
LEMMA NoVotesOK ==
    ASSUME NEW t, t.success_corroborations = <<>>, t.failure_corroborations = <<>>,
           t.valid_tx_hash_corroborations = <<>>, t.invalid_tx_hash_corroborations = <<>>
    PROVE  VotesOK(t)
<1>1. Outcome(t) = <<>> \o <<>> /\ Judgement(t) = <<>> \o <<>>
  BY DEF Outcome, Judgement
<1>2. <<>> \o <<>> = <<>>
  OBVIOUS
<1>3. DOMAIN <<>> = {}
  OBVIOUS
<1> QED BY <1>1, <1>2, <1>3 DEF VotesOK, NoDuplicates, Contains

\* Recording the vote of an author who has not voted and is not the sender.
LEMMA RecordedVotesOK ==
    ASSUME NEW before \in ActiveEthTransaction, NEW author \in Accounts,
           NEW succeeded \in BOOLEAN, NEW hash_is_valid \in BOOLEAN,
           VotesOK(before), author # before.sender, requires_corroboration(before, author),
           NEW t, t = Recorded(before, succeeded, hash_is_valid, author)
    PROVE  VotesOK(t)
<1>1. /\ before.success_corroborations \in Seq(Accounts)
      /\ before.failure_corroborations \in Seq(Accounts)
      /\ before.valid_tx_hash_corroborations \in Seq(Accounts)
      /\ before.invalid_tx_hash_corroborations \in Seq(Accounts)
  BY DEF ActiveEthTransaction
<1>2. ~Contains(Outcome(before), author)
  BY <1>1, ContainsConcat DEF requires_corroboration, Outcome
<1>3. ~Contains(Judgement(before), author)
  BY <1>2 DEF VotesOK
<1>4. /\ NoDuplicates(Outcome(t))
      /\ \A x : Contains(Outcome(t), x) <=> Contains(Outcome(before), x) \/ x = author
  <2>1. /\ t.success_corroborations =
              IF succeeded THEN Append(before.success_corroborations, author)
                           ELSE before.success_corroborations
        /\ t.failure_corroborations =
              IF ~succeeded THEN Append(before.failure_corroborations, author)
                            ELSE before.failure_corroborations
    BY RecordedProperties
  <2> DEFINE v == before.success_corroborations
             w == before.failure_corroborations
             v2 == t.success_corroborations
             w2 == t.failure_corroborations
  <2>2. /\ v \in Seq(Accounts) /\ w \in Seq(Accounts)
        /\ NoDuplicates(v \o w) /\ ~Contains(v \o w, author)
        /\ v2 = IF succeeded THEN Append(v, author) ELSE v
        /\ w2 = IF ~succeeded THEN Append(w, author) ELSE w
    BY <1>1, <1>2, <2>1 DEF Outcome, VotesOK
  <2>3. Outcome(t) = v2 \o w2 /\ Outcome(before) = v \o w
    BY DEF Outcome
  <2> HIDE DEF v, w, v2, w2
  <2>4. /\ NoDuplicates(v2 \o w2)
        /\ \A x : Contains(v2 \o w2, x) <=> Contains(v \o w, x) \/ x = author
    <3>1. /\ NoDuplicates(Append(v, author) \o w)
          /\ NoDuplicates(v \o Append(w, author))
          /\ \A x : Contains(Append(v, author) \o w, x) <=> Contains(v \o w, x) \/ x = author
          /\ \A x : Contains(v \o Append(w, author), x) <=> Contains(v \o w, x) \/ x = author
      BY <2>2, OneMoreVote
    <3> QED BY <2>2, <3>1
  <2> QED BY <2>3, <2>4
<1>5. /\ NoDuplicates(Judgement(t))
      /\ \A x : Contains(Judgement(t), x) <=> Contains(Judgement(before), x) \/ x = author
  <2>1. /\ t.valid_tx_hash_corroborations =
              IF hash_is_valid THEN Append(before.valid_tx_hash_corroborations, author)
                               ELSE before.valid_tx_hash_corroborations
        /\ t.invalid_tx_hash_corroborations =
              IF ~hash_is_valid THEN Append(before.invalid_tx_hash_corroborations, author)
                                ELSE before.invalid_tx_hash_corroborations
    BY RecordedProperties
  <2> DEFINE v == before.valid_tx_hash_corroborations
             w == before.invalid_tx_hash_corroborations
             v2 == t.valid_tx_hash_corroborations
             w2 == t.invalid_tx_hash_corroborations
  <2>2. /\ v \in Seq(Accounts) /\ w \in Seq(Accounts)
        /\ NoDuplicates(v \o w) /\ ~Contains(v \o w, author)
        /\ v2 = IF hash_is_valid THEN Append(v, author) ELSE v
        /\ w2 = IF ~hash_is_valid THEN Append(w, author) ELSE w
    BY <1>1, <1>3, <2>1 DEF Judgement, VotesOK
  <2>3. Judgement(t) = v2 \o w2 /\ Judgement(before) = v \o w
    BY DEF Judgement
  <2> HIDE DEF v, w, v2, w2
  <2>4. /\ NoDuplicates(v2 \o w2)
        /\ \A x : Contains(v2 \o w2, x) <=> Contains(v \o w, x) \/ x = author
    <3>1. /\ NoDuplicates(Append(v, author) \o w)
          /\ NoDuplicates(v \o Append(w, author))
          /\ \A x : Contains(Append(v, author) \o w, x) <=> Contains(v \o w, x) \/ x = author
          /\ \A x : Contains(v \o Append(w, author), x) <=> Contains(v \o w, x) \/ x = author
      BY <2>2, OneMoreVote
    <3> QED BY <2>2, <3>1
  <2> QED BY <2>3, <2>4
<1>6. t.sender = before.sender
  BY RecordedProperties
<1> QED BY <1>4, <1>5, <1>6 DEF VotesOK

LEMMA CorroboratorsStep ==
    ASSUME TypeOK, VoteShape, CorroboratorsCountOnce
    PROVE  CorroboratorsCountOnce'
<1> DEFINE Goal == \A i \in DOMAIN active' : \A j \in DOMAIN active'[i].tx_data :
                      VotesOK(active'[i].tx_data[j])
<1>0. CorroboratorsCountOnce' <=> Goal
  BY SameMembersMeaning DEF CorroboratorsCountOnce, VotesOK, Outcome, Judgement
<1>1. ASSUME active # None, active[1].tx_data # None
      PROVE  VotesOK(active[1].tx_data[1]) /\ active[1].tx_data[1] \in ActiveEthTransaction
  BY <1>1, ActiveFacts, TxFacts, CorroboratorsMeaning
<1>2. CASE active' = active
  BY <1>2, <1>0, CorroboratorsMeaning
<1>3. CASE \A i \in DOMAIN active' : Fresh(active'[i])
  BY <1>3, <1>0, NoVotesOK DEF Fresh
<1>4. ASSUME NEW author \in Accounts, Confirms(author) PROVE Goal
  <2>1. active # None /\ DOMAIN active' = {1} /\ active'[1].tx_data = active[1].tx_data
    BY <1>4, ActiveFacts DEF Confirms, ActiveRequestData
  <2> QED BY <2>1, ActiveFacts, CorroboratorsMeaning
<1>5. ASSUME NEW t, StoresTx(t), VotesOK(t) PROVE Goal
  <2>1. /\ DOMAIN active' = {1} /\ DOMAIN active'[1].tx_data = {1}
        /\ active'[1].tx_data[1] = t
    BY <1>5 DEF StoresTx
  <2> QED BY <1>5, <2>1
<1>6. ASSUME NEW hash \in EthTxHashes, SetsHash(hash) PROVE Goal
  <2> DEFINE t == [active[1].tx_data[1] EXCEPT !.eth_tx_hash = hash]
  <2>1. StoresTx(t) /\ active # None /\ active[1].tx_data # None
    BY <1>6 DEF SetsHash, StoresTx
  <2>2. VotesOK(t)
    BY <1>1, <2>1 DEF VotesOK, Outcome, Judgement, ActiveEthTransaction
  <2> HIDE DEF t
  <2> QED BY <1>5, <2>1, <2>2
<1>7. ASSUME NEW author \in Accounts, NEW succeeded \in BOOLEAN, NEW hash_is_valid \in BOOLEAN,
             Corroborates(author, succeeded, hash_is_valid)
      PROVE  Goal
  <2> DEFINE t == Recorded(active[1].tx_data[1], succeeded, hash_is_valid, author)
  <2>1. /\ StoresTx(t) /\ active # None /\ active[1].tx_data # None
        /\ author # active[1].tx_data[1].sender
        /\ requires_corroboration(active[1].tx_data[1], author)
    BY <1>7 DEF Corroborates, StoresTx
  <2>2. VotesOK(t)
    BY <1>1, <2>1, RecordedVotesOK
  <2> HIDE DEF t
  <2> QED BY <1>5, <2>1, <2>2
<1> QED BY <1>0, <1>2, <1>3, <1>4, <1>6, <1>7 DEF VoteShape

\* However corroborations are repeated, delayed or mixed between attempts, an
\* author weighs once in the outcome and once in the judgement of the hash, and
\* the sender in neither (add_corroboration, requires_corroboration).
THEOREM NoDoubleCorroboration == Spec => []CorroboratorsCountOnce
<1>1. Init => CorroboratorsCountOnce
  BY DEF Init, CorroboratorsCountOnce, None
<1>2. TypeOK /\ CorroboratorsCountOnce /\ [Next]_vars => CorroboratorsCountOnce'
  BY StepVotes, CorroboratorsStep
<1> QED BY TypeCorrect, <1>1, <1>2, PTL DEF Spec

ConfirmedOnce(a) ==
    /\ \A j, k \in DOMAIN a.confirmations :
          a.confirmations[j].signer = a.confirmations[k].signer => j = k
    /\ \A j \in DOMAIN a.confirmations :
          /\ a.confirmations[j].msg = a.msg_hash
          /\ \A k \in DOMAIN a.tx_data :
                a.confirmations[j].signer # a.tx_data[k].sender

\* One more author signs the message everybody signed.
LEMMA OneMoreConfirmation ==
    ASSUME TypeOK, NEW author \in Accounts, Confirms(author), ConfirmedOnce(active[1])
    PROVE  ConfirmedOnce(active'[1])
<1> DEFINE old == active[1].confirmations
           c == [signer |-> author, msg |-> active[1].msg_hash]
           new == active'[1].confirmations
<1>1. /\ active # None /\ active[1] \in ActiveRequestData
      /\ active'[1] = [active[1] EXCEPT !.confirmations = Append(old, c)]
      /\ ~Contains(old, c)
      /\ active[1].tx_data # None => author # active[1].tx_data[1].sender
  BY ActiveFacts DEF Confirms
<1>2. /\ new = Append(old, c) /\ active'[1].msg_hash = active[1].msg_hash
      /\ active'[1].tx_data = active[1].tx_data
      /\ old \in Seq(Signature) /\ c \in Signature
  BY <1>1 DEF ActiveRequestData, Signature
<1>3. /\ Len(old) \in Nat /\ DOMAIN old = 1..Len(old) /\ DOMAIN new = 1..(Len(old) + 1)
      /\ \A i \in 1..Len(old) : new[i] = old[i] /\ old[i] \in Signature
      /\ new[Len(old) + 1] = c
  BY <1>2, AppendProperties, LenProperties, ElementOfSeq
<1>4. \A j \in DOMAIN old : old[j].msg = active[1].msg_hash
  BY DEF ConfirmedOnce
<1>5. \A j \in 1..Len(old) : old[j].signer # author
  <2> TAKE j \in 1..Len(old)
  <2>1. old[j] \in Signature /\ old[j].msg = active[1].msg_hash /\ old[j] # c
    BY <1>1, <1>3, <1>4 DEF Contains
  <2> QED BY <2>1 DEF Signature
<1>6. \A k \in DOMAIN active[1].tx_data : author # active[1].tx_data[k].sender
  <2>1. CASE active[1].tx_data = None
    BY <2>1 DEF None
  <2>2. CASE active[1].tx_data # None
    BY <1>1, <2>2, TxFacts
  <2> QED BY <2>1, <2>2
<1>7. c.signer = author /\ c.msg = active[1].msg_hash
  OBVIOUS
<1>8. ASSUME NEW j \in DOMAIN new, NEW k \in DOMAIN new, new[j].signer = new[k].signer
      PROVE  j = k
  <2>1. /\ \A n \in 1..Len(old) : n \in DOMAIN old
        /\ j \in 1..Len(old) \/ j = Len(old) + 1
        /\ k \in 1..Len(old) \/ k = Len(old) + 1
    BY <1>3
  <2>2. \A m, n \in 1..Len(old) : old[m].signer = old[n].signer => m = n
    BY <2>1 DEF ConfirmedOnce
  <2> HIDE DEF new, old, c
  <2> QED BY <1>3, <1>5, <1>7, <1>8, <2>1, <2>2
<1>9. ASSUME NEW j \in DOMAIN new
      PROVE  /\ new[j].msg = active'[1].msg_hash
             /\ \A k \in DOMAIN active'[1].tx_data :
                   new[j].signer # active'[1].tx_data[k].sender
  <2>1. j \in 1..Len(old) \/ j = Len(old) + 1
    BY <1>3
  <2>2. CASE j \in 1..Len(old)
    BY <1>2, <1>3, <2>2 DEF ConfirmedOnce
  <2>3. CASE j = Len(old) + 1
    BY <1>2, <1>3, <1>6, <1>7, <2>3
  <2> QED BY <2>1, <2>2, <2>3
<1> HIDE DEF old, c
<1> QED BY <1>8, <1>9 DEF ConfirmedOnce

LEMMA ConfirmationsStep ==
    ASSUME TypeOK, VoteShape, ConfirmationsCountOnce
    PROVE  ConfirmationsCountOnce'
<1> DEFINE Goal == \A i \in DOMAIN active' : ConfirmedOnce(active'[i])
<1>0. ConfirmationsCountOnce' <=> Goal
  BY DEF ConfirmationsCountOnce, ConfirmedOnce
<1>1. \A i \in DOMAIN active : ConfirmedOnce(active[i])
  BY DEF ConfirmationsCountOnce, ConfirmedOnce
<1>2. CASE active' = active
  BY <1>2, <1>0, <1>1
<1>3. CASE \A i \in DOMAIN active' : Fresh(active'[i])
  <2>1. DOMAIN <<>> = {}
    OBVIOUS
  <2> QED BY <1>0, <1>3, <2>1 DEF Fresh, ConfirmedOnce
<1>4. ASSUME NEW author \in Accounts, Confirms(author) PROVE Goal
  <2>1. active # None /\ DOMAIN active' = {1}
    BY <1>4 DEF Confirms
  <2>2. ConfirmedOnce(active[1])
    BY <1>1, <2>1, ActiveFacts
  <2>3. ConfirmedOnce(active'[1])
    BY <1>4, <2>2, OneMoreConfirmation
  <2> QED BY <2>1, <2>3
<1>5. ASSUME NEW t, StoresTx(t), t.sender = active[1].tx_data[1].sender PROVE Goal
  <2>1. /\ active # None /\ active[1].tx_data # None
        /\ DOMAIN active' = {1}
        /\ active'[1] = [active[1] EXCEPT !.tx_data = Some(t)]
        /\ DOMAIN active'[1].tx_data = {1} /\ active'[1].tx_data[1] = t
    BY <1>5 DEF StoresTx
  <2>2. /\ ConfirmedOnce(active[1]) /\ active[1] \in ActiveRequestData
        /\ DOMAIN active[1].tx_data = {1}
    BY <1>1, <2>1, ActiveFacts, TxFacts
  <2>3. /\ active'[1].confirmations = active[1].confirmations
        /\ active'[1].msg_hash = active[1].msg_hash
    BY <2>1, <2>2 DEF ActiveRequestData
  <2>4. ConfirmedOnce(active'[1])
    BY <1>5, <2>1, <2>2, <2>3 DEF ConfirmedOnce
  <2> QED BY <2>1, <2>4
<1>6. ASSUME NEW hash \in EthTxHashes, SetsHash(hash) PROVE Goal
  <2> DEFINE t == [active[1].tx_data[1] EXCEPT !.eth_tx_hash = hash]
  <2>1. StoresTx(t) /\ active # None /\ active[1].tx_data # None
    BY <1>6 DEF SetsHash, StoresTx
  <2>2. t.sender = active[1].tx_data[1].sender
    BY <2>1, TxFacts DEF ActiveEthTransaction
  <2> HIDE DEF t
  <2> QED BY <1>5, <2>1, <2>2
<1>7. ASSUME NEW author \in Accounts, NEW succeeded \in BOOLEAN, NEW hash_is_valid \in BOOLEAN,
             Corroborates(author, succeeded, hash_is_valid)
      PROVE  Goal
  <2> DEFINE t == Recorded(active[1].tx_data[1], succeeded, hash_is_valid, author)
  <2>1. StoresTx(t) /\ active # None /\ active[1].tx_data # None
    BY <1>7 DEF Corroborates, StoresTx
  <2>2. t.sender = active[1].tx_data[1].sender
    BY <2>1, TxFacts, RecordedProperties
  <2> HIDE DEF t
  <2> QED BY <1>5, <2>1, <2>2
<1> QED BY <1>0, <1>2, <1>3, <1>4, <1>6, <1>7 DEF VoteShape

\* The confirmations shown to the contract are by different authors, none by the
\* sender, all over the message of the current set-up (add_confirmation).
THEOREM NoDoubleConfirmation == Spec => []ConfirmationsCountOnce
<1>1. Init => ConfirmationsCountOnce
  BY DEF Init, ConfirmationsCountOnce, None
<1>2. TypeOK /\ ConfirmationsCountOnce /\ [Next]_vars => ConfirmationsCountOnce'
  BY StepVotes, ConfirmationsStep
<1> QED BY TypeCorrect, <1>1, <1>2, PTL DEF Spec
=============================================================================
